---- MODULE Spec2Model ----
(***************************************************************************)
(* Model of molrender: the structure size classifier, the representation   *)
(* plan of ImageRenderer.render, and the render orchestration of           *)
(* ImageRenderer.renderAll / main, as far as exit codes, written image     *)
(* files and the shared canvas are concerned.                              *)
(*                                                                         *)
(* Seven specifications:                                                     *)
(*   Spec        one invocation of the command line program (main)         *)
(*   SpecNames   the same, over input paths of every shape                 *)
(*   SpecSize    getStructureSize / isFiberLike applied to bounded inputs  *)
(*   SpecChainList  one invocation of the chain-list subcommand            *)
(*   SpecPlan    the color themes of the layers of one target              *)
(*   SpecCamera  focusCamera / FocusFirstResidue applied to bounded        *)
(*               focus structures                                          *)
(*   SpecRenderAll  the callback chain of RenderAll.renderComb             *)
(***************************************************************************)
EXTENDS Integers, Sequences, FiniteSets, TLC

VARIABLES
    args,            \* parsed command line: [render, arg, format]
    trajectory,      \* parsed input: [frameCount, assemblies, chains]
    pc,              \* position of the single thread of control
    phase,           \* which loop of renderAll is running ("single" otherwise)
    i,               \* loop index of renderAll
    target,          \* render target being processed, NoTarget between targets
    structure,       \* structure handed to render()
    size,            \* local 'size' of render()
    options,         \* local 'options' of render()
    todo,            \* addXxx calls of render() not yet awaited
    focusStructure,  \* local 'focusStructure' of render()
    canvas,          \* representations held by canvas3d
    camera,          \* what the camera was last framed on
    imageProps,      \* imagePass postprocessing props
    files,           \* image files present in the output directory
    writeFailed,     \* image files whose write was attempted and failed
    started,         \* targets whose render began, in order
    faults,          \* number of failures of external steps so far
    exitCode,        \* process exit code, NoExit while running
    err,             \* the step whose failure ended the run, "none" otherwise
    fiberLike,       \* result of isFiberLike (SpecSize)
    frames,          \* camera frames computed so far (SpecCamera)
    chainOperators,  \* resolved tokens of the chain list (SpecChainList)
    calls            \* activations of RenderAll methods in flight (SpecRenderAll)

vars == <<args, trajectory, pc, phase, i, target, structure, size, options, todo,
          focusStructure, canvas, camera, imageProps, files, writeFailed, started,
          faults, exitCode, err, fiberLike, frames, chainOperators,
          calls>>

-----------------------------------------------------------------------------
(* Bounds *)

MaxFrames == 2
MaxAssemblies == 1
MaxChains == 4
MaxFaults == 1
MaxGroups == 2

-----------------------------------------------------------------------------
(* Structures.  A structure is seen through the fields the renderer reads:  *)
(* polymerResidueCount and unitSymmetryGroups; a symmetry group is its list *)
(* of units, a unit is the length of its polymerElements.  The units of one *)
(* symmetry group are copies of each other, so the inputs keep them equal.  *)

Units(n, k) == [units |-> [j \in 1..n |-> k]]

UnitCounts == {1, 2, 3, 290}
PolymerElementCounts == {0, 10, 14, 15}
ResidueCounts == {0, 9, 10, 30, 500, 4000, 4001, 4060, 5000}

SymmetryGroups == {Units(n, k) : n \in UnitCounts, k \in PolymerElementCounts}

GroupLists == UNION {[1..n -> SymmetryGroups] : n \in 0..MaxGroups}

SizeInputs ==
    [polymerResidueCount : ResidueCounts, unitSymmetryGroups : GroupLists]

isFiberLikeFirstGroupOnly(s) ==
    /\ Len(s.unitSymmetryGroups) = 1
    /\ s.unitSymmetryGroups[1].units[1] > 0
    /\ Len(s.unitSymmetryGroups[1].units) > 2
    /\ s.unitSymmetryGroups[1].units[1] < 15

isFiberLike(s) ==
    LET polymerSymmetryGroups ==
            SelectSeq(s.unitSymmetryGroups, LAMBDA ug : ug.units[1] > 0)
    IN  /\ Len(polymerSymmetryGroups) = 1
        /\ Len(polymerSymmetryGroups[1].units) > 2
        /\ polymerSymmetryGroups[1].units[1] < 15

getStructureSizeInclusiveBig(s) ==
    IF s.polymerResidueCount >= 4000 THEN "Big"
    ELSE IF isFiberLike(s) THEN "Small"
    ELSE IF s.polymerResidueCount < 10 THEN "Small"
    ELSE "Medium"

getStructureSizeNoFiberRule(s) ==
    IF s.polymerResidueCount > 4000 THEN "Big"
    ELSE IF s.polymerResidueCount < 10 THEN "Small"
    ELSE "Medium"

getStructureSize(s) ==
    IF s.polymerResidueCount > 4000 THEN "Big"
    ELSE IF isFiberLike(s) THEN "Small"
    ELSE IF s.polymerResidueCount < 10 THEN "Small"
    ELSE "Medium"

-----------------------------------------------------------------------------
(* Inputs of one invocation *)

EntityTypes == {"polymer", "non-polymer", "water"}
Formats == {"png", "jpeg"}

\* chains table of the representative model: row j holds the entity type of
\* the chain whose label_asym_id is j
ChainTables == UNION {[1..n -> EntityTypes] : n \in 0..MaxChains}

\* arg: modIndex (0-based), asmIndex (0-based) or chainName (0 names no chain)
Invocations ==
    {[render |-> "all", arg |-> 0], [render |-> "models", arg |-> 0]}
    \cup {[render |-> "model", arg |-> a] : a \in 0..MaxFrames}
    \cup {[render |-> "assembly", arg |-> a] : a \in 0..MaxAssemblies}
    \cup {[render |-> "chain", arg |-> a] : a \in 0..MaxChains}

\* polymer residue counts of the structures handed to render(): one per size
TargetResidueCounts == {9, 10, 4001}

SampleStructure(n) ==
    [polymerResidueCount |-> n, unitSymmetryGroups |-> <<Units(1, n)>>]

TargetStructures == {SampleStructure(n) : n \in TargetResidueCounts}

\* selection of a chain without polymer residues, and of a name no chain has
NonPolymerStructure ==
    [polymerResidueCount |-> 0, unitSymmetryGroups |-> <<Units(1, 0)>>]

EmptyStructure == [polymerResidueCount |-> 0, unitSymmetryGroups |-> <<>>]

NoTarget == [kind |-> "none", id |-> 0]
NoStructure == [polymerResidueCount |-> 0, unitSymmetryGroups |-> <<>>]
NoOptions == [suppressSurface |-> FALSE, suppressBranched |-> FALSE]
NoExit == -1

\* A path is a sequence of separators, dots and runs of other characters.
Separators == {"/", "\\"}

\* String.prototype.split on a set of one-character separators
RECURSIVE split(_, _)
split(s, seps) ==
    IF \A j \in 1..Len(s) : s[j] \notin seps THEN <<s>>
    ELSE LET j == CHOOSE k \in 1..Len(s) :
                      s[k] \in seps /\ \A l \in 1..(k - 1) : s[l] \notin seps
         IN  <<SubSeq(s, 1, j - 1)>> \o split(SubSeq(s, j + 1, Len(s)), seps)

getFileNameLastExtension(inPath) ==
    LET arr == split(inPath, Separators)
        parts == split(arr[Len(arr)], {"."})
        cut == IF Len(parts) = 1 THEN 0 ELSE Len(parts[Len(parts)]) + 1
    IN  SubSeq(arr[Len(arr)], 1, Len(arr[Len(arr)]) - cut)

\* the last segment of the path, up to its first dot
getFileName(inPath) ==
    LET arr == split(inPath, Separators)
    IN  split(arr[Len(arr)], {"."})[1]

SamplePath == <<"1abc", ".", "cif">>

InPaths ==
    {SamplePath,
     <<"data", "/", "1abc", ".", "cif", ".", "gz">>,
     <<"d", ".", "v2", "\\", "2xyz">>,
     <<".", "/", "in", ".", "d", "/", "2xyz", ".", "bcif">>}

\* `${outPath}/${fileName}_model-${oneIndex}` and the like, plus the extension
\* createImage appends
imageFile(t, format) ==
    [name |-> getFileName(args.in), stem |-> t.kind, id |-> t.id, ext |-> format]

-----------------------------------------------------------------------------
(* Selection expressions.  The atoms of a structure fall into classes; a    *)
(* query is the set of classes it selects, an expression is built from      *)
(* queries with union, merge and exceptBy.                                  *)

PolymerClasses ==
    {"proteinTrace", "proteinRest", "nucleicTrace", "nucleicRest",
     "nonStandardResidue", "disulfideResidue", "residueBondedToLigand",
     "residueBondedToBranched"}

AtomClasses == PolymerClasses \cup {"ligand", "ion", "branched", "water"}

\* StructureSelectionQueries
Q ==
    [all |-> AtomClasses,
     polymer |-> PolymerClasses,
     trace |-> {"proteinTrace", "nucleicTrace"},
     nucleic |-> {"nucleicTrace", "nucleicRest"},
     water |-> {"water"},
     ion |-> {"ion"},
     ligandPlusConnected |-> {"ligand", "residueBondedToLigand"},
     branchedPlusConnected |-> {"branched", "residueBondedToBranched"},
     branchedConnectedOnly |-> {"residueBondedToBranched"},
     disulfideBridges |-> {"disulfideResidue"},
     nonStandardPolymer |-> {"nonStandardResidue"}]

union(selections) == UNION selections
merge(selections) == UNION selections
exceptBy(selection, by) == selection \ by

SmallFocusExpressionWithWater == union({Q.all})

SmallFocusExpression == union({exceptBy(Q.all, Q.water)})

RepresentationExpressionWithWater ==
    union({merge({Q.ion, Q.ligandPlusConnected, Q.branchedConnectedOnly,
                  Q.disulfideBridges, Q.nonStandardPolymer, Q.water})})

RepresentationExpression ==
    union({merge({Q.ion, Q.ligandPlusConnected, Q.branchedConnectedOnly,
                  Q.disulfideBridges, Q.nonStandardPolymer})})

RepresentationExpressionNoBranched ==
    union({merge({Q.ion, Q.ligandPlusConnected, Q.disulfideBridges,
                  Q.nonStandardPolymer})})

FocusExpression ==
    union({merge({Q.trace, Q.nucleic, Q.branchedPlusConnected, Q.ion,
                  Q.ligandPlusConnected, Q.branchedConnectedOnly,
                  Q.disulfideBridges, Q.nonStandardPolymer})})

FocusExpressionNoBranched ==
    union({merge({Q.trace, Q.nucleic, Q.ion, Q.ligandPlusConnected,
                  Q.disulfideBridges, Q.nonStandardPolymer})})

\* the atom classes getStructureFromExpression keeps, by the name under which
\* render() passes the expression
getStructureFromExpression(expression) ==
    CASE expression = "polymer" -> Q.polymer
      [] expression = "branchedPlusConnected" -> Q.branchedPlusConnected
      [] expression = "SmallFocusExpression" -> SmallFocusExpression
      [] expression = "RepresentationExpression" -> RepresentationExpression
      [] expression = "RepresentationExpressionNoBranched" ->
            RepresentationExpressionNoBranched
      [] expression = "FocusExpression" -> FocusExpression
      [] expression = "FocusExpressionNoBranched" -> FocusExpressionNoBranched

-----------------------------------------------------------------------------
(* The representation plan of render() *)

Layer(kind, over) == [kind |-> kind, over |-> over]

renderLayersBigWithLigands(sz, opts) ==
    IF ~opts.suppressSurface /\ sz = "Big"
    THEN <<Layer("Surface", "polymer"),
           Layer("BallAndStick", "RepresentationExpression")>>
    ELSE <<Layer("Cartoon", "polymer")>>
         \o (IF ~opts.suppressBranched
             THEN <<Layer("Carbohydrate", "branchedPlusConnected")>>
             ELSE <<>>)
         \o (IF sz = "Small"
             THEN <<Layer("BallAndStick", "SmallFocusExpression")>>
             ELSE <<Layer("BallAndStick",
                          IF opts.suppressBranched
                          THEN "RepresentationExpressionNoBranched"
                          ELSE "RepresentationExpression")>>)

\* the addXxx calls of render(), in order
renderLayers(sz, opts) ==
    IF ~opts.suppressSurface /\ sz = "Big"
    THEN <<Layer("Surface", "polymer")>>
    ELSE <<Layer("Cartoon", "polymer")>>
         \o (IF ~opts.suppressBranched
             THEN <<Layer("Carbohydrate", "branchedPlusConnected")>>
             ELSE <<>>)
         \o (IF sz = "Small"
             THEN <<Layer("BallAndStick", "SmallFocusExpression")>>
             ELSE <<Layer("BallAndStick",
                          IF opts.suppressBranched
                          THEN "RepresentationExpressionNoBranched"
                          ELSE "RepresentationExpression")>>)

renderFocusAlwaysBranched(sz, opts) ==
    IF ~opts.suppressSurface /\ sz = "Big" THEN "polymer"
    ELSE IF sz = "Small" THEN "SmallFocusExpression"
    ELSE "FocusExpression"

\* the value render() assigns to focusStructure
renderFocus(sz, opts) ==
    IF ~opts.suppressSurface /\ sz = "Big" THEN "polymer"
    ELSE IF sz = "Small" THEN "SmallFocusExpression"
    ELSE IF opts.suppressBranched THEN "FocusExpressionNoBranched"
    ELSE "FocusExpression"

-----------------------------------------------------------------------------
(* Initial state: the renderer is constructed, the canvas is empty, post-   *)
(* processing is off.  A subcommand reads only part of the trajectory; the  *)
(* parts it does not read are kept at their smallest value.                 *)

Start(paths, tables) ==
    /\ \E inv \in Invocations, fmt \in Formats, fc \in 1..MaxFrames,
          na \in 0..MaxAssemblies, ch \in tables, path \in paths :
          /\ inv.render \notin {"all", "model", "models"} => fc = 1
          /\ inv.render \notin {"all", "assembly"} => na = 0
          /\ inv.render \notin {"all", "chain"} => ch = <<>>
          /\ args = [render |-> inv.render, arg |-> inv.arg, format |-> fmt,
                     in |-> path]
          /\ trajectory = [frameCount |-> fc, assemblies |-> na, chains |-> ch]
    /\ pc = "main"
    /\ phase = "single"
    /\ i = 0
    /\ target = NoTarget
    /\ structure = NoStructure
    /\ size = "unset"
    /\ options = NoOptions
    /\ todo = <<>>
    /\ focusStructure = "unassigned"
    /\ canvas = {}
    /\ camera = [on |-> "default", of |-> NoTarget]
    /\ imageProps = [occlusion |-> "off", outline |-> "off"]
    /\ files = {}
    /\ writeFailed = {}
    /\ started = <<>>
    /\ faults = 0
    /\ exitCode = NoExit
    /\ err = "none"
    /\ fiberLike = FALSE
    /\ frames = {}
    /\ chainOperators = <<>>
    /\ calls = <<>>

Init == Start({SamplePath}, ChainTables)

inputVars == <<args, trajectory, fiberLike, frames, chainOperators, calls>>
localVars == <<target, structure, size, options, todo, focusStructure>>
outputVars == <<canvas, camera, imageProps, files, writeFailed>>

\* an exception reaches main().catch: console.error, process.exit(1)
Throw(step) ==
    /\ pc' = "exited"
    /\ exitCode' = 1
    /\ err' = step

\* entry of render(): classify, then the first addXxx call is pending
Render(t, s, opts) ==
    LET sz == getStructureSize(s)
        layers == renderLayers(sz, opts)
    IN  /\ target' = t
        /\ started' = Append(started, t)
        /\ structure' = s
        /\ size' = sz
        /\ options' = opts
        /\ todo' = layers
        /\ focusStructure' = IF Len(layers) = 1 THEN renderFocus(sz, opts)
                             ELSE "unassigned"
        /\ pc' = "add"
        /\ UNCHANGED <<exitCode, err>>

Fail(step) ==
    /\ Throw(step)
    /\ UNCHANGED <<localVars, started>>

renderModel(oneIndex, defined) ==
    IF ~defined THEN Fail("index")
    ELSE \E s \in TargetStructures :
            Render([kind |-> "model", id |-> oneIndex], s,
                   [suppressSurface |-> FALSE, suppressBranched |-> FALSE])

renderAssembly(asmIndex) ==
    IF asmIndex >= trajectory.assemblies THEN Fail("index")
    ELSE \/ Fail("assembly")
         \/ \E s \in TargetStructures :
               Render([kind |-> "assembly", id |-> asmIndex + 1], s,
                      [suppressSurface |-> FALSE, suppressBranched |-> FALSE])

chainStructures(chainName) ==
    IF chainName \notin 1..Len(trajectory.chains) THEN {EmptyStructure}
    ELSE IF trajectory.chains[chainName] = "polymer" THEN TargetStructures
    ELSE {NonPolymerStructure}

renderChain(chainName) ==
    \E s \in chainStructures(chainName) :
        Render([kind |-> "chain", id |-> chainName], s,
               [suppressSurface |-> FALSE, suppressBranched |-> TRUE])

renderModels ==
    \E s \in TargetStructures :
        Render([kind |-> "models", id |-> 0], s,
               [suppressSurface |-> TRUE, suppressBranched |-> FALSE])

-----------------------------------------------------------------------------
(* main *)

\* readCifFile and getTrajectory: the file parses, or parsing throws
ReadInput ==
    /\ pc = "main"
    /\ \/ pc' = "dispatch" /\ UNCHANGED <<exitCode, err>>
       \/ Throw("parse")
    /\ UNCHANGED <<inputVars, localVars, outputVars, phase, i, started, faults>>

MainAll ==
    /\ pc = "dispatch"
    /\ args.render = "all"
    /\ pc' = "renderAll"
    /\ phase' = "models"
    /\ i' = 0
    /\ UNCHANGED <<inputVars, localVars, outputVars, started, faults, exitCode, err>>

MainChain ==
    /\ pc = "dispatch"
    /\ args.render = "chain"
    /\ renderChain(args.arg)
    /\ UNCHANGED <<inputVars, outputVars, phase, i, faults>>

\* trajectory.getFrameAtIndex(modIndex) is undefined out of range
MainModel ==
    /\ pc = "dispatch"
    /\ args.render = "model"
    /\ renderModel(args.arg + 1, args.arg < trajectory.frameCount)
    /\ UNCHANGED <<inputVars, outputVars, phase, i, faults>>

MainAssembly ==
    /\ pc = "dispatch"
    /\ args.render = "assembly"
    /\ renderAssembly(args.arg)
    /\ UNCHANGED <<inputVars, outputVars, phase, i, faults>>

MainModels ==
    /\ pc = "dispatch"
    /\ args.render = "models"
    /\ renderModels
    /\ UNCHANGED <<inputVars, outputVars, phase, i, faults>>

\* main() resolved: the process ends with nothing left to run
Exit ==
    /\ pc = "returned"
    /\ pc' = "exited"
    /\ exitCode' = 0
    /\ UNCHANGED <<inputVars, localVars, outputVars, phase, i, started, faults, err>>

-----------------------------------------------------------------------------
(* renderAll: one action per loop, each taking one iteration or leaving it *)

NextLoop(next) ==
    /\ phase' = next
    /\ i' = 0
    /\ UNCHANGED <<pc, localVars, started, exitCode, err>>

RenderAllModels ==
    /\ pc = "renderAll"
    /\ phase = "models"
    /\ IF i < trajectory.frameCount
       THEN renderModel(i + 1, TRUE) /\ UNCHANGED <<phase, i>>
       ELSE NextLoop("assemblies")
    /\ UNCHANGED <<inputVars, outputVars, faults>>

RenderAllAssemblies ==
    /\ pc = "renderAll"
    /\ phase = "assemblies"
    /\ IF i < trajectory.assemblies
       THEN renderAssembly(i) /\ UNCHANGED <<phase, i>>
       ELSE NextLoop("chains")
    /\ UNCHANGED <<inputVars, outputVars, faults>>

RenderAllChainsRenderEveryChain ==
    /\ pc = "renderAll"
    /\ phase = "chains"
    /\ IF i < Len(trajectory.chains)
       THEN renderChain(i + 1) /\ UNCHANGED <<phase, i>>
       ELSE NextLoop("ensemble")
    /\ UNCHANGED <<inputVars, outputVars, faults>>

RenderAllChainsSkipBig ==
    /\ pc = "renderAll"
    /\ phase = "chains"
    /\ IF i < Len(trajectory.chains)
       THEN \E s \in chainStructures(i + 1) :
               IF trajectory.chains[i + 1] # "polymer" \/ getStructureSize(s) = "Big"
               THEN /\ i' = i + 1
                    /\ UNCHANGED <<pc, phase, localVars, started, exitCode, err>>
               ELSE /\ Render([kind |-> "chain", id |-> i + 1], s,
                              [suppressSurface |-> FALSE, suppressBranched |-> TRUE])
                    /\ UNCHANGED <<phase, i>>
       ELSE NextLoop("ensemble")
    /\ UNCHANGED <<inputVars, outputVars, faults>>

RenderAllChains ==
    /\ pc = "renderAll"
    /\ phase = "chains"
    /\ IF i < Len(trajectory.chains)
       THEN IF trajectory.chains[i + 1] # "polymer"
            THEN /\ i' = i + 1
                 /\ UNCHANGED <<pc, phase, localVars, started, exitCode, err>>
            ELSE renderChain(i + 1) /\ UNCHANGED <<phase, i>>
       ELSE NextLoop("ensemble")
    /\ UNCHANGED <<inputVars, outputVars, faults>>

RenderAllEnsemble ==
    /\ pc = "renderAll"
    /\ phase = "ensemble"
    /\ IF trajectory.frameCount > 1
       THEN renderModels
       ELSE pc' = "returned" /\ UNCHANGED <<localVars, started, exitCode, err>>
    /\ UNCHANGED <<inputVars, outputVars, phase, i, faults>>

-----------------------------------------------------------------------------
(* render(): the awaited steps of one target *)

AddRepresentationThenFocus ==
    /\ pc = "add"
    /\ \/ /\ canvas' = canvas \cup
                 {[kind |-> Head(todo).kind, over |-> Head(todo).over, of |-> target]}
          /\ todo' = Tail(todo)
          /\ focusStructure' = renderFocus(size, options)
          /\ pc' = "focus"
          /\ UNCHANGED <<faults, exitCode, err>>
       \/ /\ faults < MaxFaults
          /\ faults' = faults + 1
          /\ Throw("add")
          /\ UNCHANGED <<canvas, todo, focusStructure>>
    /\ UNCHANGED <<inputVars, phase, i, target, structure, size, options, camera,
                   imageProps, files, writeFailed, started>>

AddRepresentationNoFocus ==
    /\ pc = "add"
    /\ \/ /\ canvas' = canvas \cup
                 {[kind |-> Head(todo).kind, over |-> Head(todo).over, of |-> target]}
          /\ todo' = Tail(todo)
          /\ pc' = IF todo' = <<>> THEN "focus" ELSE "add"
          /\ UNCHANGED <<focusStructure, faults, exitCode, err>>
       \/ /\ faults < MaxFaults
          /\ faults' = faults + 1
          /\ Throw("add")
          /\ UNCHANGED <<canvas, todo, focusStructure>>
    /\ UNCHANGED <<inputVars, phase, i, target, structure, size, options, camera,
                   imageProps, files, writeFailed, started>>

\* one awaited addXxx call: the representation is built and put on the canvas,
\* or building it throws
AddRepresentation ==
    /\ pc = "add"
    /\ \/ /\ canvas' = canvas \cup
                 {[kind |-> Head(todo).kind, over |-> Head(todo).over, of |-> target]}
          /\ todo' = Tail(todo)
          /\ focusStructure' = IF Len(todo') = 1 THEN renderFocus(size, options)
                               ELSE focusStructure
          /\ pc' = IF todo' = <<>> THEN "focus" ELSE "add"
          /\ UNCHANGED <<faults, exitCode, err>>
       \/ /\ faults < MaxFaults
          /\ faults' = faults + 1
          /\ Throw("add")
          /\ UNCHANGED <<canvas, todo, focusStructure>>
    /\ UNCHANGED <<inputVars, phase, i, target, structure, size, options, camera,
                   imageProps, files, writeFailed, started>>

FocusCamera ==
    /\ pc = "focus"
    /\ camera' = [on |-> focusStructure, of |-> target]
    /\ pc' = "raster"
    /\ UNCHANGED <<inputVars, localVars, phase, i, canvas, imageProps, files,
                   writeFailed, started, faults, exitCode, err>>

RasterizeKeepEffects ==
    /\ pc = "raster"
    /\ imageProps' = IF size = "Big" THEN [occlusion |-> "on", outline |-> "on"]
                     ELSE imageProps
    /\ \/ pc' = "encode" /\ UNCHANGED <<faults, exitCode, err>>
       \/ /\ faults < MaxFaults
          /\ faults' = faults + 1
          /\ Throw("raster")
    /\ UNCHANGED <<inputVars, localVars, phase, i, canvas, camera, files,
                   writeFailed, started>>

\* createImage up to getImageData: commit, imagePass.setProps, render, readPixels
Rasterize ==
    /\ pc = "raster"
    /\ imageProps' = [occlusion |-> IF size = "Big" THEN "on" ELSE "off",
                      outline |-> IF size = "Big" THEN "on" ELSE "off"]
    /\ \/ pc' = "encode" /\ UNCHANGED <<faults, exitCode, err>>
       \/ /\ faults < MaxFaults
          /\ faults' = faults + 1
          /\ Throw("raster")
    /\ UNCHANGED <<inputVars, localVars, phase, i, canvas, camera, files,
                   writeFailed, started>>

\* new PNG / JPEG.encode
Encode ==
    /\ pc = "encode"
    /\ \/ pc' = "write" /\ UNCHANGED <<faults, exitCode, err>>
       \/ /\ faults < MaxFaults
          /\ faults' = faults + 1
          /\ Throw("encode")
    /\ UNCHANGED <<inputVars, localVars, outputVars, phase, i, started>>

\* writePngFile / writeJpegFile.  A failed PNG stream emits 'error', which
\* nobody listens to: the process dies of the uncaught exception, code 1.  The
\* callback of fs.writeFile ignores its error argument and resolves.
WriteFile ==
    /\ pc = "write"
    /\ \/ /\ files' = files \cup {imageFile(target, args.format)}
          /\ pc' = "clear"
          /\ UNCHANGED <<writeFailed, faults, exitCode, err>>
       \/ /\ faults < MaxFaults
          /\ faults' = faults + 1
          /\ writeFailed' = writeFailed \cup {imageFile(target, args.format)}
          /\ IF args.format = "png"
             THEN Throw("write")
             ELSE pc' = "clear" /\ UNCHANGED <<exitCode, err>>
          /\ UNCHANGED files
    /\ UNCHANGED <<inputVars, localVars, phase, i, canvas, camera, imageProps, started>>

ClearKeepCanvas ==
    /\ pc = "clear"
    /\ target' = NoTarget
    /\ structure' = NoStructure
    /\ size' = "unset"
    /\ options' = NoOptions
    /\ focusStructure' = "unassigned"
    /\ IF phase \in {"single", "ensemble"}
       THEN pc' = "returned" /\ i' = i
       ELSE pc' = "renderAll" /\ i' = i + 1
    /\ UNCHANGED <<inputVars, phase, todo, canvas, camera, imageProps, files, writeFailed,
                   started, faults, exitCode, err>>

\* canvas3d.clear(), render() and its caller return: back in the loop of
\* renderAll, or in main
Clear ==
    /\ pc = "clear"
    /\ canvas' = {}
    /\ target' = NoTarget
    /\ structure' = NoStructure
    /\ size' = "unset"
    /\ options' = NoOptions
    /\ focusStructure' = "unassigned"
    /\ IF phase \in {"single", "ensemble"}
       THEN pc' = "returned" /\ i' = i
       ELSE pc' = "renderAll" /\ i' = i + 1
    /\ UNCHANGED <<inputVars, phase, todo, camera, imageProps, files, writeFailed,
                   started, faults, exitCode, err>>

Next ==
    \/ ReadInput
    \/ MainAll
    \/ MainChain
    \/ MainModel
    \/ MainAssembly
    \/ MainModels
    \/ RenderAllModels
    \/ RenderAllAssemblies
    \/ RenderAllChains
    \/ RenderAllEnsemble
    \/ AddRepresentation
    \/ FocusCamera
    \/ Rasterize
    \/ Encode
    \/ WriteFile
    \/ Clear
    \/ Exit

Spec == Init /\ [][Next]_vars

\* SpecNames: the same program, started on input paths of every shape and on
\* chain tables of at most MaxNamedChains rows
MaxNamedChains == 1

NamedChainTables == {ch \in ChainTables : Len(ch) <= MaxNamedChains}

InitNames == Start(InPaths, NamedChainTables)

SpecNames == InitNames /\ [][Next]_vars

-----------------------------------------------------------------------------
(* SpecChainList: one invocation of the chain-list subcommand.  The tokens  *)
(* are resolved against the operator groups of the assembly, the resolved   *)
(* tokens select units of the assembly, and the union of the selections is  *)
(* rendered as one target by the steps of render().  A unit of the assembly *)
(* is a chain under an operator; an operator is its name and its operList.  *)

NoOperator == "none"

parseInt == ("1" :> 1) @@ ("2" :> 2) @@ ("63" :> 63) @@ ("999" :> 999)

\* the sorted, comma-joined oper ids: the sorted list itself
sortedKeyUnsorted(operList) == operList

sortedKey(operList) == SortSeq(operList, LAMBDA a, b : a < b)

RECURSIVE allOperators(_)
allOperators(groups) ==
    IF groups = <<>> THEN <<>>
    ELSE Head(groups).operators \o allOperators(Tail(groups))

\* the lookup from key to operator name, filled by scanning every operator of
\* every group: a key scanned again takes the later name
operatorNameLookup(groups) ==
    LET ops == allOperators(groups)
        keys == {sortedKey(ops[j].operList) : j \in 1..Len(ops)}
        last(k) == CHOOSE j \in 1..Len(ops) :
                       /\ sortedKey(ops[j].operList) = k
                       /\ \A l \in (j + 1)..Len(ops) : sortedKey(ops[l].operList) # k
    IN  [k \in keys |-> ops[last(k)].name]

InvalidToken == [ok |-> FALSE, chain |-> "", operName |-> NoOperator]
ChainOperatorToken(c, n) == [ok |-> TRUE, chain |-> c, operName |-> n]

\* one run of tokens, the keyword 'chain' that began it removed
resolveRun(run, lookup) ==
    IF run = <<>> THEN InvalidToken
    ELSE IF Len(run) = 1 THEN ChainOperatorToken(run[1], NoOperator)
    ELSE IF run[2] = "operator-name"
         THEN ChainOperatorToken(run[1], run[3])
    ELSE IF run[2] = "operator-list"
         THEN LET ids == [j \in 1..(Len(run) - 2) |-> parseInt[run[j + 2]]]
                  key == sortedKey(ids)
              IN  IF key \in DOMAIN lookup
                  THEN ChainOperatorToken(run[1], lookup[key])
                  ELSE InvalidToken
    ELSE InvalidToken

\* resolve(assembly, tokens): the resolved tokens, or a validation error
resolve(groups, tokens) ==
    LET runs == Tail(split(tokens, {"chain"}))
        lookup == operatorNameLookup(groups)
        resolved == [k \in 1..Len(runs) |-> resolveRun(runs[k], lookup)]
    IN  [ok |-> \A k \in 1..Len(runs) : resolved[k].ok, tokens |-> resolved]

\* the units of the symmetry structure of the assembly
assemblyUnits(groups) ==
    UNION {{[chain |-> c, operName |-> g.operators[j].name] :
                c \in g.asymIds, j \in 1..Len(g.operators)} :
              g \in {groups[k] : k \in 1..Len(groups)}}

\* toStructures and their union: the units a resolved token selects are those
\* of its chain, under its operator when it names one
toStructures(groups, resolved) ==
    UNION {{u \in assemblyUnits(groups) :
                /\ u.chain = resolved[k].chain
                /\ resolved[k].operName # NoOperator =>
                      u.operName = resolved[k].operName} :
              k \in 1..Len(resolved)}

\* the structure handed to render(): every selected unit is a chain copy of
\* 10 polymer residues
chainListStructure(groups, resolved) ==
    LET selected == toStructures(groups, resolved)
    IN  [polymerResidueCount |-> 10 * Cardinality(selected),
         unitSymmetryGroups |->
             IF selected = {} THEN <<>>
             ELSE <<Units(Cardinality(selected), 10)>>,
         selected |-> selected]

(* Inputs *)

ChainNames == {"A", "B"}
OperatorNames == {"ASM_1", "ASM_2"}
IdTokens == DOMAIN parseInt
MaxIds == 2

IdLists == UNION {[1..n -> IdTokens] : n \in 0..MaxIds}

FirstRuns ==
    {<<>>}
    \cup {<<c>> : c \in ChainNames}
    \cup {<<c, "operator-name", n>> : c \in ChainNames, n \in OperatorNames}
    \cup {<<c, "operator-list">> \o ids : c \in ChainNames, ids \in IdLists}
    \cup {<<c, "operator", n>> : c \in ChainNames, n \in OperatorNames}

SecondRuns ==
    {<<>>, <<"B">>, <<"B", "operator-name", "ASM_2">>,
     <<"B", "operator-list", "1">>, <<"B", "operator-list", "999">>}

ChainLists ==
    {<<"chain">> \o r : r \in FirstRuns}
    \cup {<<"chain">> \o r \o <<"chain">> \o q : r \in FirstRuns, q \in SecondRuns}

\* one group whose operators compose two oper ids each, and two groups that
\* apply the same oper id to different chains
OperatorGroupLists ==
    {<<[asymIds |-> {"A", "B"},
        operators |-> <<[name |-> "ASM_1", operList |-> <<1, 63>>],
                        [name |-> "ASM_2", operList |-> <<63, 2>>]>>]>>,
     <<[asymIds |-> {"A"},
        operators |-> <<[name |-> "ASM_1", operList |-> <<1>>]>>],
       [asymIds |-> {"B"},
        operators |-> <<[name |-> "ASM_2", operList |-> <<1>>]>>]>>}

InitChainList ==
    /\ \E a \in 0..MaxAssemblies, fmt \in Formats, tokens \in ChainLists :
          args = [render |-> "chain-list", arg |-> a, format |-> fmt,
                  in |-> SamplePath, chainList |-> tokens]
    /\ \E na \in 1..MaxAssemblies, groups \in OperatorGroupLists :
          trajectory = [frameCount |-> 1, assemblies |-> na, chains |-> <<>>,
                        operatorGroups |-> groups]
    /\ pc = "main"
    /\ phase = "single"
    /\ i = 0
    /\ target = NoTarget
    /\ structure = NoStructure
    /\ size = "unset"
    /\ options = NoOptions
    /\ todo = <<>>
    /\ focusStructure = "unassigned"
    /\ canvas = {}
    /\ camera = [on |-> "default", of |-> NoTarget]
    /\ imageProps = [occlusion |-> "off", outline |-> "off"]
    /\ files = {}
    /\ writeFailed = {}
    /\ started = <<>>
    /\ faults = 0
    /\ exitCode = NoExit
    /\ err = "none"
    /\ fiberLike = FALSE
    /\ frames = {}
    /\ chainOperators = <<>>
    /\ calls = <<>>

MainChainListLenient ==
    /\ pc = "dispatch"
    /\ args.render = "chain-list"
    /\ IF args.arg >= trajectory.assemblies
       THEN Fail("index") /\ UNCHANGED chainOperators
       ELSE LET r == resolve(trajectory.operatorGroups, args.chainList)
            IN  /\ chainOperators' = SelectSeq(r.tokens, LAMBDA t : t.ok)
                /\ pc' = "chainList"
                /\ UNCHANGED <<localVars, started, exitCode, err>>
    /\ UNCHANGED <<args, trajectory, fiberLike, frames, calls, outputVars, phase, i,
                 faults>>

\* case 'chain-list' of main: renderChainList up to its first await.  The
\* assembly is looked up and the tokens are resolved; a validation error ends
\* the process with exit code 1
MainChainList ==
    /\ pc = "dispatch"
    /\ args.render = "chain-list"
    /\ IF args.arg >= trajectory.assemblies
       THEN Fail("index") /\ UNCHANGED chainOperators
       ELSE LET r == resolve(trajectory.operatorGroups, args.chainList)
            IN  IF ~r.ok
                THEN Fail("validation") /\ UNCHANGED chainOperators
                ELSE /\ chainOperators' = r.tokens
                     /\ pc' = "chainList"
                     /\ UNCHANGED <<localVars, started, exitCode, err>>
    /\ UNCHANGED <<args, trajectory, fiberLike, frames, calls, outputVars, phase, i,
                 faults>>

\* the assembly is built, which may throw, and the union of the selections is
\* handed to render()
RenderChainList ==
    /\ pc = "chainList"
    /\ \/ Fail("assembly")
       \/ Render([kind |-> "chain-list", id |-> args.arg + 1],
                 chainListStructure(trajectory.operatorGroups, chainOperators),
                 [suppressSurface |-> FALSE, suppressBranched |-> FALSE])
    /\ UNCHANGED <<inputVars, outputVars, phase, i, faults>>

NextChainList ==
    \/ ReadInput
    \/ MainChainList
    \/ RenderChainList
    \/ AddRepresentation
    \/ FocusCamera
    \/ Rasterize
    \/ Encode
    \/ WriteFile
    \/ Clear
    \/ Exit

SpecChainList == InitChainList /\ [][NextChainList]_vars

-----------------------------------------------------------------------------
(* SpecSize: the classifier applied to bounded structures *)

InitSize ==
    /\ structure \in SizeInputs
    /\ size = "unset"
    /\ fiberLike = FALSE
    /\ frames = {}
    /\ chainOperators = <<>>
    /\ calls = <<>>
    /\ pc = "input"
    /\ args = [render |-> "none", arg |-> 0, format |-> "png"]
    /\ trajectory = [frameCount |-> 1, assemblies |-> 0, chains |-> <<>>]
    /\ phase = "single"
    /\ i = 0
    /\ target = NoTarget
    /\ options = NoOptions
    /\ todo = <<>>
    /\ focusStructure = "unassigned"
    /\ canvas = {}
    /\ camera = [on |-> "default", of |-> NoTarget]
    /\ imageProps = [occlusion |-> "off", outline |-> "off"]
    /\ files = {}
    /\ writeFailed = {}
    /\ started = <<>>
    /\ faults = 0
    /\ exitCode = NoExit
    /\ err = "none"

Classify ==
    /\ pc = "input"
    /\ size' = getStructureSize(structure)
    /\ fiberLike' = isFiberLike(structure)
    /\ pc' = "classified"
    /\ UNCHANGED <<args, trajectory, phase, i, target, structure, options, todo,
                   focusStructure, canvas, camera, imageProps, files, writeFailed,
                   started, faults, exitCode, err, frames, chainOperators,
                   calls>>

NextSize == Classify

SpecSize == InitSize /\ [][NextSize]_vars

-----------------------------------------------------------------------------
(* SpecPlan: the color themes of the layers of one target.  The structure   *)
(* carries, besides what the classifier reads, its polymerUnitCount and      *)
(* whether the pLDDT confidence theme is applicable to it.                   *)

PolymerUnitCounts == {0, 1, 2, 39, 40}
PolymerElementsPerUnit == {3, 20, 4001}
PlddtPolicies == {"on", "single-chain", "off"}
NoColorTheme == "undefined"

PlanStructure(u, k, c) ==
    [polymerResidueCount |-> u * k,
     unitSymmetryGroups |-> IF u = 0 THEN <<>> ELSE <<Units(u, k)>>,
     polymerUnitCount |-> u,
     plddt |-> c]

PlanStructures ==
    {PlanStructure(u, k, c) :
        u \in PolymerUnitCounts, k \in PolymerElementsPerUnit, c \in BOOLEAN}

RECURSIVE Repeat(_, _)
Repeat(seq, n) == IF n = 0 THEN <<>> ELSE seq \o Repeat(seq, n - 1)

\* Structure.ofTrajectory: the units of every frame, side by side
ofTrajectory(s, frameCount) ==
    [polymerResidueCount |-> frameCount * s.polymerResidueCount,
     unitSymmetryGroups |-> Repeat(s.unitSymmetryGroups, frameCount),
     polymerUnitCount |-> frameCount * s.polymerUnitCount,
     plddt |-> s.plddt]

getColorThemeNoIndex(s) ==
    IF s.polymerUnitCount = 1 THEN "sequence-id" ELSE "polymer-id"

getColorTheme(s) ==
    IF s.polymerUnitCount = 1 THEN "sequence-id"
    ELSE IF s.polymerUnitCount < 40 THEN "polymer-index"
    ELSE "polymer-id"

checkPlddtColorTheme(plddt, s) ==
    IF plddt = "off" THEN NoColorTheme
    ELSE IF plddt = "single-chain" /\ s.polymerUnitCount # 1 THEN NoColorTheme
    ELSE IF s.plddt THEN "plddt-confidence"
    ELSE NoColorTheme

\* the colorTheme with which render() has the layer built: the params of the
\* addXxx call spread over the defaults of addCartoon, addGaussianSurface,
\* addBallAndStick and addCarbohydrate
layerColorTheme(layer, s, opts) ==
    CASE layer.kind = "Surface" -> getColorTheme(s)
      [] layer.kind = "Cartoon" ->
            IF opts.colorTheme # NoColorTheme THEN opts.colorTheme
            ELSE getColorTheme(s)
      [] layer.kind = "BallAndStick" -> "element-symbol"
      [] layer.kind = "Carbohydrate" -> "carbohydrate-symbol"

InitPlan ==
    /\ \E kind \in {"model", "assembly", "chain", "models"},
          policy \in PlddtPolicies, fc \in 1..MaxFrames :
          /\ kind # "models" => fc = 1
          /\ args = [render |-> kind, arg |-> 0, format |-> "png", plddt |-> policy]
          /\ \E s \in PlanStructures :
                trajectory = [frameCount |-> fc, assemblies |-> 0, chains |-> <<>>,
                              representative |-> s]
    /\ structure = NoStructure
    /\ pc = "dispatch"
    /\ phase = "single"
    /\ i = 0
    /\ target = NoTarget
    /\ size = "unset"
    /\ options = NoOptions
    /\ todo = <<>>
    /\ focusStructure = "unassigned"
    /\ canvas = {}
    /\ camera = [on |-> "default", of |-> NoTarget]
    /\ imageProps = [occlusion |-> "off", outline |-> "off"]
    /\ files = {}
    /\ writeFailed = {}
    /\ started = <<>>
    /\ faults = 0
    /\ exitCode = NoExit
    /\ err = "none"
    /\ fiberLike = FALSE
    /\ frames = {}
    /\ chainOperators = <<>>
    /\ calls = <<>>

\* render() from its entry to the last awaited addXxx call
RenderPlanned(kind, s, opts) ==
    LET sz == getStructureSize(s)
        layers == renderLayers(sz, opts)
    IN  /\ pc = "dispatch"
        /\ args.render = kind
        /\ target' = [kind |-> kind, id |-> 1]
        /\ started' = Append(started, target')
        /\ structure' = s
        /\ size' = sz
        /\ options' = opts
        /\ canvas' = {[kind |-> layers[j].kind, over |-> layers[j].over,
                       of |-> target',
                       colorTheme |-> layerColorTheme(layers[j], s, opts)] :
                         j \in 1..Len(layers)}
        /\ focusStructure' = renderFocus(sz, opts)
        /\ pc' = "focus"
        /\ UNCHANGED <<inputVars, phase, i, todo, camera, imageProps, files,
                       writeFailed, faults, exitCode, err>>

PlanModel ==
    RenderPlanned("model", trajectory.representative,
                  [suppressSurface |-> FALSE, suppressBranched |-> FALSE,
                   colorTheme |->
                       checkPlddtColorTheme(args.plddt, trajectory.representative)])

PlanAssembly ==
    RenderPlanned("assembly", trajectory.representative,
                  [suppressSurface |-> FALSE, suppressBranched |-> FALSE,
                   colorTheme |->
                       checkPlddtColorTheme(args.plddt, trajectory.representative)])

PlanChain ==
    RenderPlanned("chain", trajectory.representative,
                  [suppressSurface |-> FALSE, suppressBranched |-> TRUE,
                   colorTheme |->
                       checkPlddtColorTheme(args.plddt, trajectory.representative)])

PlanModels ==
    RenderPlanned("models",
                  ofTrajectory(trajectory.representative, trajectory.frameCount),
                  [suppressSurface |-> TRUE, suppressBranched |-> FALSE,
                   colorTheme |-> IF trajectory.representative.polymerUnitCount = 1
                                  THEN "sequence-id" ELSE "polymer-id"])

NextPlan ==
    \/ PlanModel
    \/ PlanAssembly
    \/ PlanChain
    \/ PlanModels
    \/ FocusCamera

SpecPlan == InitPlan /\ [][NextPlan]_vars

-----------------------------------------------------------------------------
(* SpecCamera: the camera frame of a focus structure.  Coordinates are      *)
(* integers; the box axes of the principal axes are axis-aligned, so that   *)
(* magnitudes and plane distances are integers too.  A number that the code *)
(* computes as NaN is a record with nan = TRUE.                             *)

negate(v) == <<-v[1], -v[2], -v[3]>>
sub(a, b) == <<a[1] - b[1], a[2] - b[2], a[3] - b[3]>>
scale(v, k) == <<k * v[1], k * v[2], k * v[3]>>
dot(a, b) == a[1] * b[1] + a[2] * b[2] + a[3] * b[3]
magnitude(v) == CHOOSE r \in 0..dot(v, v) : r * r = dot(v, v)

\* Vec3.matchDirection: a, or -a, pointing into the general direction of b
matchDirection(a, b) == IF dot(a, b) > 0 THEN a ELSE negate(a)

Number(v) == [nan |-> FALSE, v |-> v]
NaN == [nan |-> TRUE, v |-> 0]
Negative(d) == ~d.nan /\ d.v < 0
Positive(d) == ~d.nan /\ d.v > 0

\* a point, or the point whose coordinates are NaN
Point(v) == [nan |-> FALSE, at |-> v]
NaNPoint == [nan |-> TRUE, at |-> <<0, 0, 0>>]

RECURSIVE Sum(_, _)
Sum(positions, indices) ==
    IF indices = <<>> THEN <<0, 0, 0>>
    ELSE LET rest == Sum(positions, Tail(indices))
             at == positions[Head(indices)]
         IN  <<at[1] + rest[1], at[2] + rest[2], at[3] + rest[3]>>

\* the positions of all elements, unit after unit
RECURSIVE getPositions(_)
getPositions(units) ==
    IF units = <<>> THEN <<>>
    ELSE Head(units).elements \o getPositions(Tail(units))

calculateDisplacementUnsigned(position, origin, normalDir) ==
    LET D == -normalDir[1] * origin[1] - normalDir[2] * origin[2]
             - normalDir[3] * origin[3]
        numerator == dot(normalDir, position.at) + D
    IN  IF position.nan \/ magnitude(normalDir) = 0 THEN NaN
        ELSE Number((IF numerator < 0 THEN -numerator ELSE numerator)
                        \div magnitude(normalDir))

\* signed distance of one position to the plane through origin with normal
\* normalDir; 0 / 0 is NaN
calculateDisplacement(position, origin, normalDir) ==
    LET D == -normalDir[1] * origin[1] - normalDir[2] * origin[2]
             - normalDir[3] * origin[3]
        numerator == dot(normalDir, position.at) + D
    IN  IF position.nan \/ magnitude(normalDir) = 0 THEN NaN
        ELSE IF numerator < 0
             THEN Number(-((-numerator) \div magnitude(normalDir)))
             ELSE Number(numerator \div magnitude(normalDir))

getAxesToFlipExclusive(position, origin, up, normalDir) ==
    LET toYAxis == calculateDisplacement(position, origin, normalDir)
        toXAxis == calculateDisplacement(position, origin, up)
    IN  IF Negative(toYAxis) THEN <<"aroundY">>
        ELSE IF Negative(toXAxis) THEN <<"aroundX">>
        ELSE <<>>

getAxesToFlip(position, origin, up, normalDir) ==
    LET toYAxis == calculateDisplacement(position, origin, normalDir)
        toXAxis == calculateDisplacement(position, origin, up)
    IN  (IF Negative(toYAxis) THEN <<"aroundY">> ELSE <<>>)
        \o (IF Negative(toXAxis) THEN <<"aroundX">> ELSE <<>>)

RECURSIVE flipAxes(_, _)
\* toFlip.forEach: 'aroundY' negates dirC, 'aroundX' negates dirA and dirC
flipAxes(toFlip, dirs) ==
    IF toFlip = <<>> THEN dirs
    ELSE flipAxes(Tail(toFlip),
                  IF Head(toFlip) = "aroundY"
                  THEN [dirA |-> dirs.dirA, dirC |-> negate(dirs.dirC)]
                  ELSE [dirA |-> negate(dirs.dirA), dirC |-> negate(dirs.dirC)])

\* units[0].props.polymerElements is the cache of the polymerElements
\* getter: undefined until the getter has run
getFirstResidueOrAveragePosition(s, caPositions) ==
    IF Len(s.units) = 1 THEN Point(caPositions[1])
    ELSE LET unit == s.units[1]
             atomIndexs == IF unit.props.polymerElements
                           THEN unit.polymerElements
                           ELSE [j \in 1..Len(unit.elements) |-> j]
             sum == Sum(unit.elements, atomIndexs)
         IN  IF Len(atomIndexs) = 0 THEN NaNPoint
             ELSE Point(<<sum[1] \div Len(atomIndexs),
                          sum[2] \div Len(atomIndexs),
                          sum[3] \div Len(atomIndexs)>>)

\* Camera.createDefaultSnapshot.  direction is target - position: the
\* position itself is the target moved back along direction by the target
\* distance.  nan: the position is NaN.
DefaultSnapshot ==
    [target |-> <<0, 0, 0>>, direction |-> <<0, 0, -100>>, up |-> <<0, 1, 0>>,
     radius |-> 0, radiusMax |-> 10, mode |-> "perspective", nan |-> FALSE]

\* Camera.focus called when the camera stands at position: the view direction
\* is dir or -dir, matched to where the camera looked, up likewise; a radius
\* that is not positive leaves the camera where it stands
focus(cam, position, center, radius, up, dir) ==
    IF radius > 0
    THEN [cam EXCEPT !.target = center,
                     !.radius = radius,
                     !.direction = matchDirection(dir, sub(cam.target, position)),
                     !.up = matchDirection(up, cam.up)]
    ELSE [cam EXCEPT !.direction = sub(cam.target, position)]

focusCameraTightRadius(cam, s) ==
    IF s.units = <<>>
    THEN [cam EXCEPT !.nan = TRUE]
    ELSE LET axes == s.principalAxes
         IN  focus(cam, scale(axes.origin, 100), axes.origin,
                   magnitude(axes.dirA), axes.dirA, axes.dirC)

\* ImageRenderer.focusCamera.  The principal axes of no position at all have a
\* NaN origin and no extent, so the camera is moved to NaN and not focused.
focusCamera(cam, s) ==
    IF s.units = <<>>
    THEN [cam EXCEPT !.nan = TRUE,
                     !.radius = s.boundaryRadius,
                     !.radiusMax = s.boundaryRadius]
    ELSE LET axes == s.principalAxes
             radius == magnitude(axes.dirA)
             position == scale(axes.origin, 100)
             focused == focus(cam, position, axes.origin, radius,
                              axes.dirA, axes.dirC)
         IN  [focused EXCEPT !.radius = s.boundaryRadius,
                             !.radiusMax = s.boundaryRadius]

getFocusAxesViewNormal(s) ==
    LET caPositions == getPositions(s.units)
        axes == s.principalAxes
        positionToFlip == getFirstResidueOrAveragePosition(s, caPositions)
        toFlip == getAxesToFlip(positionToFlip, axes.origin, axes.dirA, axes.dirC)
        flipped == flipAxes(toFlip, [dirA |-> axes.dirA, dirC |-> axes.dirC])
    IN  [reference |-> positionToFlip,
         toYAxis |-> calculateDisplacement(positionToFlip, axes.origin, axes.dirC),
         toXAxis |-> calculateDisplacement(positionToFlip, axes.origin, axes.dirA),
         toFlip |-> toFlip,
         dirA |-> flipped.dirA,
         dirC |-> flipped.dirC]

\* FocusFirstResidue.getFocus up to the flips: the reference point, its two
\* plane distances, the flips and the axes after the flips
getFocusAxes(s) ==
    LET caPositions == getPositions(s.units)
        axes == s.principalAxes
        positionToFlip == getFirstResidueOrAveragePosition(s, caPositions)
        toFlip == getAxesToFlip(positionToFlip, axes.origin, axes.dirA, axes.dirB)
        flipped == flipAxes(toFlip, [dirA |-> axes.dirA, dirC |-> axes.dirC])
    IN  [reference |-> positionToFlip,
         toYAxis |-> calculateDisplacement(positionToFlip, axes.origin, axes.dirB),
         toXAxis |-> calculateDisplacement(positionToFlip, axes.origin, axes.dirA),
         toFlip |-> toFlip,
         dirA |-> flipped.dirA,
         dirC |-> flipped.dirC]

\* FocusFirstResidue.getFocus on a structure with at least one unit
getFocus(s) ==
    LET reset == [DefaultSnapshot EXCEPT !.mode = "orthographic"]
        f == getFocusAxes(s)
        origin == s.principalAxes.origin
        radius == magnitude(f.dirC)
        position == scale(origin, 100)
        deltaDistance == negate(position)
        cameraPosition == IF dot(deltaDistance, f.dirC) <= 0
                          THEN negate(position) ELSE position
        cameraUp == IF dot(<<0, 1, 0>>, f.dirA) <= 0
                    THEN negate(reset.up) ELSE reset.up
        focused == focus([reset EXCEPT !.up = cameraUp], cameraPosition, origin,
                         radius, f.dirA, f.dirC)
    IN  [focused EXCEPT !.radius = s.boundaryRadius,
                        !.radiusMax = s.boundaryRadius]

(* Inputs *)

Points == {<<6, 6, 0>>, <<-6, 6, 0>>, <<-6, -6, 0>>}
UnitSizes == {1, 2}
Origins == {<<0, 0, 0>>, <<6, 0, 6>>}

BoxAxes ==
    {[dirA |-> <<12, 0, 0>>, dirB |-> <<0, 6, 0>>, dirC |-> <<0, 0, 6>>],
     [dirA |-> <<0, 12, 0>>, dirB |-> <<-6, 0, 0>>, dirC |-> <<0, 0, 6>>],
     [dirA |-> <<0, -12, 0>>, dirB |-> <<6, 0, 0>>, dirC |-> <<0, 0, -6>>],
     [dirA |-> <<-12, 0, 0>>, dirB |-> <<0, -6, 0>>, dirC |-> <<0, 0, 6>>]}

\* the box axes of a single position: the position itself, with no extent
PointAxes(at) ==
    [origin |-> at, dirA |-> <<0, 0, 0>>, dirB |-> <<0, 0, 0>>,
     dirC |-> <<0, 0, 0>>]

PrincipalAxes ==
    {[origin |-> o, dirA |-> b.dirA, dirB |-> b.dirB, dirC |-> b.dirC] :
        o \in Origins, b \in BoxAxes}

\* the sorted index lists within 1..n
IndexLists(n) ==
    {idx \in UNION {[1..k -> 1..n] : k \in 0..n} :
        \A j \in 1..(Len(idx) - 1) : idx[j] < idx[j + 1]}

\* a unit: the positions of its elements, which of them are its
\* polymerElements, and whether the polymerElements getter has run
FirstUnits ==
    UNION {[elements : [1..n -> Points],
            polymerElements : IndexLists(n),
            props : {[polymerElements |-> FALSE]}] : n \in UnitSizes}

OtherUnit ==
    [elements |-> <<(<<6, 6, 0>>)>>, polymerElements |-> <<>>,
     props |-> [polymerElements |-> FALSE]]

ElementCount(units) == Len(getPositions(units))

UnitLists == {<<>>} \cup {<<u>> : u \in FirstUnits}
                  \cup {<<u, OtherUnit>> : u \in FirstUnits}

\* the structures handed to the focus function: their units, the box axes of
\* their positions and the radius of their bounding sphere
AxesOf(us) ==
    IF ElementCount(us) = 0 THEN {PointAxes(<<0, 0, 0>>)}
    ELSE IF ElementCount(us) = 1 THEN {PointAxes(us[1].elements[1])}
    ELSE PrincipalAxes

FocusStructures ==
    UNION {{[units |-> us, principalAxes |-> ax,
             boundaryRadius |-> 6 * ElementCount(us)] : ax \in AxesOf(us)} :
              us \in UnitLists}

\* focus structures of the targets rendered before
OtherFocusStructures ==
    {[units |-> <<OtherUnit, OtherUnit>>,
      principalAxes |-> [origin |-> <<6, 0, 6>>, dirA |-> <<-12, 0, 0>>,
                         dirB |-> <<0, -6, 0>>, dirC |-> <<0, 0, 6>>],
      boundaryRadius |-> 12]}

mirror(s) ==
    [s EXCEPT
        !.units = [u \in 1..Len(s.units) |->
                      [s.units[u] EXCEPT
                          !.elements = [j \in 1..Len(s.units[u].elements) |->
                                           negate(s.units[u].elements[j])]]],
        !.principalAxes.origin = negate(s.principalAxes.origin)]

FocusFunctions == {"focusCamera", "FocusFirstResidue"}

\* structure is the whole target, focusStructure the selection of it that
\* render() passes to the focus function
InitCamera ==
    /\ \E f \in FocusFunctions :
          args = [render |-> "model", arg |-> 0, format |-> "png", focus |-> f]
    /\ focusStructure \in FocusStructures
    /\ \E beyond \in {0, 6} :
          structure = [boundaryRadius |-> focusStructure.boundaryRadius + beyond]
    /\ camera = DefaultSnapshot
    /\ target = [kind |-> "model", id |-> 1]
    /\ frames = {}
    /\ pc = "focus"
    /\ trajectory = [frameCount |-> 1, assemblies |-> 0, chains |-> <<>>]
    /\ phase = "single"
    /\ i = 0
    /\ size = "unset"
    /\ options = NoOptions
    /\ todo = <<>>
    /\ canvas = {}
    /\ imageProps = [occlusion |-> "off", outline |-> "off"]
    /\ files = {}
    /\ writeFailed = {}
    /\ started = <<>>
    /\ faults = 0
    /\ exitCode = NoExit
    /\ err = "none"
    /\ fiberLike = FALSE
    /\ chainOperators = <<>>
    /\ calls = <<>>

cameraIdle == <<trajectory, phase, i, size, options, todo, canvas, imageProps,
                files, writeFailed, started, faults, fiberLike, chainOperators,
                calls>>

\* what is kept of a framing: the target framed, the camera it left and, for
\* FocusFirstResidue, the values that decided the flips
Frame(cam, axes) ==
    [of |-> target.id, direction |-> cam.direction, up |-> cam.up,
     radius |-> cam.radius, radiusMax |-> cam.radiusMax, nan |-> cam.nan,
     axes |-> axes]

NoFlipAxes(s) ==
    [reference |-> NaNPoint, toYAxis |-> NaN, toXAxis |-> NaN, toFlip |-> <<>>,
     dirA |-> s.principalAxes.dirA, dirC |-> s.principalAxes.dirC]

\* this.focusCamera(focusStructure) of render()
FocusCameraFrame ==
    /\ pc = "focus"
    /\ args.focus = "focusCamera"
    /\ camera' = focusCamera(camera, focusStructure)
    /\ frames' = frames \cup {Frame(camera', NoFlipAxes(focusStructure))}
    /\ UNCHANGED <<args, pc, target, structure, focusStructure, exitCode, err,
                   cameraIdle>>

\* the closure of FocusFirstResidue.getFocus applied to focusStructure: the
\* camera is reset first; without units, units[0].props throws a TypeError
GetFocusFrame ==
    /\ pc = "focus"
    /\ args.focus = "FocusFirstResidue"
    /\ IF focusStructure.units = <<>>
       THEN /\ camera' = [DefaultSnapshot EXCEPT !.mode = "orthographic"]
            /\ Throw("focus")
            /\ UNCHANGED frames
       ELSE /\ camera' = getFocus(focusStructure)
            /\ frames' = frames \cup {Frame(camera', getFocusAxes(focusStructure))}
            /\ UNCHANGED <<pc, exitCode, err>>
    /\ UNCHANGED <<args, target, structure, focusStructure, cameraIdle>>

\* some other code reads units[0].polymerElements: the getter fills the cache
ReadPolymerElements ==
    /\ pc = "focus"
    /\ focusStructure.units # <<>>
    /\ ~focusStructure.units[1].props.polymerElements
    /\ focusStructure' =
          [focusStructure EXCEPT !.units[1].props.polymerElements = TRUE]
    /\ UNCHANGED <<args, pc, target, structure, camera, frames, exitCode, err,
                   cameraIdle>>

\* another target is rendered in between and leaves its camera state
RenderOtherTarget ==
    /\ pc = "focus"
    /\ \E other \in OtherFocusStructures :
          camera' = IF args.focus = "focusCamera"
                    THEN focusCamera(camera, other)
                    ELSE getFocus(other)
    /\ UNCHANGED <<args, pc, target, structure, focusStructure, frames, exitCode,
                   err, cameraIdle>>

\* the next target is the mirror image of this one: every coordinate negated,
\* the box axes kept
MirrorTarget ==
    /\ pc = "focus"
    /\ target.id = 1
    /\ focusStructure.units # <<>>
    /\ target' = [target EXCEPT !.id = 2]
    /\ focusStructure' = mirror(focusStructure)
    /\ UNCHANGED <<args, pc, structure, camera, frames, exitCode, err, cameraIdle>>

NextCamera ==
    \/ FocusCameraFrame
    \/ GetFocusFrame
    \/ ReadPolymerElements
    \/ RenderOtherTarget
    \/ MirrorTarget

SpecCamera == InitCamera /\ [][NextCamera]_vars

-----------------------------------------------------------------------------
(* RenderAll (render-all.ts): renderComb starts a chain of callbacks.       *)
(* renderAsm, renderMod and renderChn are async functions: a call runs up   *)
(* to its first await and returns, the rest runs later, one await, timer    *)
(* or stream event at a time.  calls holds the activations that are        *)
(* suspended; canvas3d is shared by all of them.  The file holds two        *)
(* versions of the class, args.version tells which one runs.               *)

MaxModels == 2
MaxAsms == 2
MaxChns == 2

maxSize == 250

\* what a synchronous run works on: the activations suspended so far, the
\* canvas, the renders begun, and whether process.exit() was called, after
\* which nothing runs
Machine == [calls |-> calls, canvas |-> canvas, started |-> started,
            exited |-> FALSE]

assemblies(modIndex) == trajectory.models[modIndex + 1]

\* the first await of a render method, reached after canvas3d.clear()
suspend(st, fn, index1, index2, nextObj, at, kind) ==
    [st EXCEPT !.canvas = {},
               !.calls = Append(@, [fn |-> fn, index1 |-> index1,
                                    index2 |-> index2, nextObj |-> nextObj,
                                    at |-> at]),
               !.started = Append(@, [kind |-> kind,
                                      id |-> <<index1, index2>>])]

RECURSIVE renderAsm(_, _, _, _)
RECURSIVE renderChn(_, _, _)
RECURSIVE render(_, _)

\* the branch taken after an assembly image, and for an assembly index out
\* of range: asmIndex is incremented and carried over to the next model.
\* nextObj is null (the empty list) or the list of the classes of the
\* object and of the objects after it
advanceAsm(modIndex, asmIndex, nextObj, st) ==
    IF asmIndex + 1 < assemblies(modIndex)
    THEN renderAsm(modIndex, asmIndex + 1, nextObj, st)
    ELSE IF modIndex + 1 < Len(trajectory.models)
    THEN renderAsm(modIndex + 1, asmIndex + 1, nextObj, st)
    ELSE IF nextObj = <<>> THEN [st EXCEPT !.exited = TRUE]
    ELSE render(nextObj, st)

\* renderAsm up to its first await; the second version clears the canvas
\* before the test of asmIndex
renderAsm(modIndex, asmIndex, nextObj, st) ==
    IF asmIndex < assemblies(modIndex)
    THEN suspend(st, "renderAsm", modIndex, asmIndex, nextObj, "build",
                 "assembly")
    ELSE advanceAsm(modIndex, asmIndex, nextObj,
                    IF args.version = 1 THEN st ELSE [st EXCEPT !.canvas = {}])

\* renderMod up to its first await
renderMod(modIndex, nextObj, st) ==
    suspend(st, "renderMod", modIndex, 0, nextObj, "build", "model")

\* renderChn up to its first await.  The entity type test of the first
\* version passes over the polymer chains, that of the second the others
renderChn(index, nextObj, st) ==
    LET cleared == [st EXCEPT !.canvas = {}]
    IN  IF index >= Len(trajectory.chains)
        THEN IF nextObj = <<>> THEN [cleared EXCEPT !.exited = TRUE]
             ELSE render(nextObj, cleared)
        ELSE IF trajectory.chains[index + 1].polymer = (args.version = 1)
        THEN renderChn(index + 1, nextObj, cleared)
        ELSE suspend(cleared, "renderChn", index, 0, nextObj, "getStructure",
                     "chain")

\* RenderObj.render of AsmObj, ModObj and ChnObj
render(obj, st) ==
    IF Head(obj) = "AsmObj" THEN renderAsm(0, 0, Tail(obj), st)
    ELSE IF Head(obj) = "ModObj" THEN renderMod(0, Tail(obj), st)
    ELSE renderChn(0, Tail(obj), st)

\* the state in which renderComb has read the input and made the folders.
\* The models of one file share the assemblies of the file; a chain is its
\* entity type and the element count of its selection
InitRenderAll ==
    /\ \E v \in {1, 2} :
          args = [render |-> "comb", version |-> v, format |-> "png",
                  in |-> SamplePath]
    /\ \E n \in 1..MaxModels, a \in 0..MaxAsms, rows \in 0..MaxChns :
          \E ch \in [1..rows -> [polymer : BOOLEAN,
                                 elementCount : {maxSize, maxSize + 1}]] :
             trajectory = [models |-> [m \in 1..n |-> a], chains |-> ch]
    /\ pc = "renderComb"
    /\ calls = <<>>
    /\ phase = "single"
    /\ i = 0
    /\ target = NoTarget
    /\ structure = "none"
    /\ size = "unset"
    /\ options = NoOptions
    /\ todo = <<>>
    /\ focusStructure = "unassigned"
    /\ canvas = {}
    /\ camera = "initial"
    /\ imageProps = [occlusion |-> "on", outline |-> "on"]
    /\ files = {}
    /\ writeFailed = {}
    /\ started = <<>>
    /\ faults = 0
    /\ exitCode = NoExit
    /\ err = "none"
    /\ fiberLike = FALSE
    /\ frames = {}
    /\ chainOperators = <<>>

renderAllIdle == <<args, trajectory, phase, i, localVars, camera, imageProps,
                   writeFailed, faults, fiberLike, frames, chainOperators>>

\* the end of a synchronous run: what it left behind becomes the state
Commit(st) ==
    /\ calls' = st.calls
    /\ canvas' = st.canvas
    /\ started' = st.started
    /\ pc' = IF st.exited THEN "exited" ELSE "callbacks"
    /\ exitCode' = IF st.exited THEN 0 ELSE exitCode
    /\ UNCHANGED err

\* the activations without the one that has run to its end
Without(k) ==
    [j \in 1..(Len(calls) - 1) |-> IF j < k THEN calls[j] ELSE calls[j + 1]]

\* the activation is suspended again, further on
At(k, at) == [calls EXCEPT ![k].at = at]

\* renderComb: the objects are chained and renderAsm(0, 0) is called
RenderComb ==
    /\ pc = "renderComb"
    /\ Commit(renderAsm(0, 0, <<"ModObj", "ChnObj">>, Machine))
    /\ UNCHANGED <<files, renderAllIdle>>

\* mkdirSync throws: console.log, process.exit(1)
RenderCombFail ==
    /\ pc = "renderComb"
    /\ pc' = "exited"
    /\ exitCode' = 1
    /\ err' = "mkdir"
    /\ UNCHANGED <<calls, canvas, started, files, renderAllIdle>>

Representations(c) ==
    LET of == <<c.fn, c.index1, c.index2>>
    IN  IF c.fn = "renderChn"
        THEN {[repr |-> "ball-and-stick", of |-> of]}
        ELSE {[repr |-> r, of |-> of] :
                r \in {"carbohydrate", "cartoon", "ball-and-stick"}}

\* renderChn after 'await this.getStructure': the chain is selected and its
\* element count tested.  The first version goes on after the call for the
\* next chain has returned, the second returns
RenderChnSelect ==
    /\ pc = "callbacks"
    /\ \E k \in DOMAIN calls :
          LET c == calls[k]
              chain == trajectory.chains[c.index1 + 1]
          IN  /\ c.fn = "renderChn"
              /\ c.at = "getStructure"
              /\ IF chain.elementCount > maxSize
                 THEN Commit(renderChn(c.index1 + 1, c.nextObj,
                         [Machine EXCEPT !.calls =
                             IF args.version = 1 THEN At(k, "createOrUpdate")
                             ELSE Without(k)]))
                 ELSE /\ calls' = At(k, "createOrUpdate")
                      /\ UNCHANGED <<pc, canvas, started, exitCode, err>>
    /\ UNCHANGED <<files, renderAllIdle>>

\* a render method after the await of createOrUpdate: the representations
\* are added, the camera is reset and the timer is set
RenderAllBuild ==
    /\ pc = "callbacks"
    /\ \E k \in DOMAIN calls :
          /\ calls[k].at \in {"build", "createOrUpdate"}
          /\ canvas' = canvas \cup Representations(calls[k])
          /\ calls' = At(k, "timer")
    /\ UNCHANGED <<pc, started, files, exitCode, err, renderAllIdle>>

\* the timer fires: the pixels of the canvas as it is now go to the file
\* named by imagePathName
RenderAllTimer ==
    /\ pc = "callbacks"
    /\ \E k \in DOMAIN calls :
          LET c == calls[k]
              stem == IF c.fn = "renderAsm" THEN "assembly"
                      ELSE IF c.fn = "renderMod" THEN "model" ELSE "chain"
              id == <<c.index1, c.index2>>
          IN  /\ c.at = "timer"
              /\ files' = {f \in files : f.stem # stem \/ f.id # id}
                          \cup {[stem |-> stem, id |-> id, shows |-> canvas]}
              /\ calls' = At(k, "finish")
    /\ UNCHANGED <<pc, canvas, started, exitCode, err, renderAllIdle>>

\* 'finish' of the write stream: the activation ends with the call for
\* what comes next; the second version clears the canvas first
RenderAllFinish ==
    /\ pc = "callbacks"
    /\ \E k \in DOMAIN calls :
          LET c == calls[k]
              st == [Machine EXCEPT
                       !.calls = Without(k),
                       !.canvas = IF args.version = 1 THEN canvas ELSE {}]
          IN  /\ c.at = "finish"
              /\ Commit(IF c.fn = "renderAsm"
                        THEN advanceAsm(c.index1, c.index2, c.nextObj, st)
                        ELSE IF c.fn = "renderChn"
                        THEN renderChn(c.index1 + 1, c.nextObj, st)
                        ELSE IF c.index1 + 1 < Len(trajectory.models)
                        THEN renderMod(c.index1 + 1, c.nextObj, st)
                        ELSE IF c.nextObj = <<>>
                        THEN [st EXCEPT !.exited = TRUE]
                        ELSE render(c.nextObj, st))
    /\ UNCHANGED <<files, renderAllIdle>>

\* an await of a render method throws: console.error, process.exit(1)
RenderAllThrow ==
    /\ pc = "callbacks"
    /\ \E k \in DOMAIN calls :
          calls[k].at \in {"build", "getStructure", "createOrUpdate"}
    /\ pc' = "exited"
    /\ exitCode' = 1
    /\ err' = "render"
    /\ UNCHANGED <<calls, canvas, started, files, renderAllIdle>>

NextRenderAll ==
    \/ RenderComb
    \/ RenderCombFail
    \/ RenderChnSelect
    \/ RenderAllBuild
    \/ RenderAllTimer
    \/ RenderAllFinish
    \/ RenderAllThrow

SpecRenderAll == InitRenderAll /\ [][NextRenderAll]_vars

-----------------------------------------------------------------------------
(* Properties of one invocation (Spec) *)

Finished == pc = "exited" /\ exitCode = 0

\* every layer was added: render() is at or past focusCamera
LayersAdded == pc \in {"focus", "raster", "encode", "write", "clear"}

Count(table, type) == Cardinality({j \in 1..Len(table) : table[j] = type})

\* renderAll on 2 models, 1 assembly, 3 polymer chains and 1 water chain
EnumerationCase ==
    /\ args.render = "all"
    /\ trajectory.frameCount = 2
    /\ trajectory.assemblies = 1
    /\ Len(trajectory.chains) = 4
    /\ Count(trajectory.chains, "polymer") = 3
    /\ Count(trajectory.chains, "water") = 1

ImagesOf(kind) == {f \in files : f.stem = kind}

\* C1 as stated: the enumeration case leaves exactly 6 images, 2 model, 1
\* assembly and 3 chain images, and nothing else.
C1_SixImages ==
    (EnumerationCase /\ Finished /\ writeFailed = {}) =>
        /\ Cardinality(files) = 6
        /\ Cardinality(ImagesOf("model")) = 2
        /\ Cardinality(ImagesOf("assembly")) = 1
        /\ Cardinality(ImagesOf("chain")) = 3

\* C1 amended: the enumeration case leaves exactly 7 images, 2 model, 1
\* assembly, 3 chain images and the ensemble image of the 2 models; and under
\* renderAll no chain whose entity type is not 'polymer' is ever rendered.
C1_SevenImages ==
    /\ (EnumerationCase /\ Finished /\ writeFailed = {}) =>
          files = {imageFile([kind |-> "model", id |-> n], args.format) : n \in 1..2}
                  \cup {imageFile([kind |-> "assembly", id |-> 1], args.format)}
                  \cup {imageFile([kind |-> "chain", id |-> c], args.format) :
                          c \in {j \in 1..4 : trajectory.chains[j] = "polymer"}}
                  \cup {imageFile([kind |-> "models", id |-> 0], args.format)}
    /\ args.render = "all" =>
          \A k \in 1..Len(started) :
              started[k].kind = "chain" =>
                  /\ started[k].id \in 1..Len(trajectory.chains)
                  /\ trajectory.chains[started[k].id] = "polymer"

C1_Witness ==
    EnumerationCase /\ Finished /\ writeFailed = {} /\ Cardinality(files) = 7

\* C2: the canvas is empty when the first layer of a target is about to be
\* added, it only ever holds layers of the target being processed, and it
\* holds nothing between two targets.
C2_CanvasEmptyBetweenTargets ==
    /\ (pc = "add" /\ todo = renderLayers(size, options)) => canvas = {}
    /\ \A l \in canvas : l.of = target
    /\ pc \in {"renderAll", "returned"} => canvas = {}

C2_Witness ==
    Len(started) >= 2 /\ pc = "add" /\ Cardinality(canvas) = 1

StepOrder ==
    /\ pc = "add" => pc' \in {"add", "focus", "exited"}
    /\ pc' = "focus" =>
          /\ pc = "add"
          /\ size # "unset"
          /\ todo' = <<>>
          /\ Cardinality(canvas') = Len(renderLayers(size, options))
    /\ pc' = "raster" => pc = "focus" /\ camera'.of = target
    /\ pc' = "encode" => pc = "raster"
    /\ pc' = "write" => pc = "encode"
    /\ pc' = "clear" =>
          /\ pc = "write"
          /\ imageFile(target, args.format) \in files' \cup writeFailed'
    /\ pc' \in {"renderAll", "returned"} /\ target # NoTarget =>
          pc = "clear" /\ canvas' = {}
    /\ started' # started =>
          /\ pc \in {"dispatch", "renderAll"}
          /\ pc' \in {"add", "exited"}
          /\ target = NoTarget
          /\ canvas = {}
          /\ \A k \in 1..Len(started) :
                imageFile(started[k], args.format) \in files \cup writeFailed
    /\ pc' = "add" /\ pc # "add" => size' # "unset" /\ started' # started

\* C3: each target goes through classify, add layers, frame the camera,
\* rasterize, write, clear in that order, and a target begins only when the
\* write of every earlier target has completed and the canvas is clear.
C3_StepOrder == [][StepOrder]_vars

C3_Witness ==
    Len(started) >= 2 /\ pc = "clear" /\ Cardinality(canvas) >= 2

\* C4 as stated: a failed add, rasterization or encoding ends the run with
\* exit code 1, and exit code 0 means every target of the invocation has its
\* image.
C4_ExitZeroOnlyOnSuccess ==
    /\ err \in {"add", "raster", "encode"} => pc = "exited" /\ exitCode = 1
    /\ exitCode = 0 =>
          \A k \in 1..Len(started) :
              imageFile(started[k], args.format) \in files

\* C5 as stated: once an image write has failed, in either format, the run
\* has ended with exit code 1.
C5_WriteFailureFatal ==
    writeFailed # {} => pc = "exited" /\ exitCode = 1

InputError ==
    \/ err \in {"parse", "index", "assembly"}
    \/ args.render = "chain" /\ args.arg \notin 1..Len(trajectory.chains)

\* C6 as stated: an invocation with an input error never exits with a code
\* other than 1, and no image file exists when its error is reported.
C6_InputErrorsBeforeAnyImage ==
    InputError =>
        /\ files = {}
        /\ pc = "exited" => exitCode = 1

\* C10 as stated: once the layers of a Big target are on the canvas, the
\* canvas holds one Surface layer over the polymer selection and nothing else,
\* and the focus structure is that polymer selection, whatever the target kind.
C10_BigOnlySurface ==
    (size = "Big" /\ LayersAdded) =>
        /\ canvas = {[kind |-> "Surface", over |-> "polymer", of |-> target]}
        /\ focusStructure = "polymer"

\* C10 amended: for a Big model, assembly or chain target the canvas holds one
\* Surface layer over the polymer selection, which is the focus structure; a
\* Big ensemble target gets Cartoon, Carbohydrate and Ball-and-Stick layers and
\* the focus selection of the Medium policy instead.
C10_BigSurfaceUnlessEnsemble ==
    (size = "Big" /\ LayersAdded) =>
        IF target.kind = "models"
        THEN /\ canvas = {[kind |-> "Cartoon", over |-> "polymer", of |-> target],
                          [kind |-> "Carbohydrate", over |-> "branchedPlusConnected",
                           of |-> target],
                          [kind |-> "BallAndStick", over |-> "RepresentationExpression",
                           of |-> target]}
             /\ focusStructure = "FocusExpression"
        ELSE /\ canvas = {[kind |-> "Surface", over |-> "polymer", of |-> target]}
             /\ focusStructure = "polymer"

C10_Witness ==
    size = "Big" /\ target.kind = "chain" /\ pc = "clear" /\ canvas # {}

LayersOf(kind) == {l \in canvas : l.kind = kind}

\* C11: once the layers of a Small model, assembly or chain target are on the
\* canvas, it holds one Cartoon layer over the polymer atoms, one Carbohydrate
\* layer unless the target is a chain, and exactly one Ball-and-Stick layer,
\* whose selection is every atom class except water and is also the focus
\* structure; it holds nothing else.
C11_SmallLayers ==
    (size = "Small" /\ LayersAdded /\ target.kind \in {"model", "assembly", "chain"}) =>
        /\ LayersOf("Cartoon") = {[kind |-> "Cartoon", over |-> "polymer", of |-> target]}
        /\ getStructureFromExpression("polymer") = PolymerClasses
        /\ LayersOf("Carbohydrate") =
              IF target.kind = "chain" THEN {}
              ELSE {[kind |-> "Carbohydrate", over |-> "branchedPlusConnected",
                     of |-> target]}
        /\ Cardinality(LayersOf("BallAndStick")) = 1
        /\ \A l \in LayersOf("BallAndStick") :
              /\ getStructureFromExpression(l.over) = AtomClasses \ {"water"}
              /\ focusStructure = l.over
        /\ \A l \in canvas : l.kind \in {"Cartoon", "Carbohydrate", "BallAndStick"}

C11_Witness ==
    /\ size = "Small"
    /\ target.kind = "chain"
    /\ pc = "raster"
    /\ Cardinality(canvas) = 2
    /\ camera.on = "SmallFocusExpression"

\* C12 as stated: the Ball-and-Stick selection of a Medium target holds water
\* when the target is a model or an assembly, and no water when it is a chain.
C12_WaterForModelAndAssembly ==
    (size = "Medium" /\ LayersAdded /\ target.kind \in {"model", "assembly", "chain"}) =>
        \A l \in LayersOf("BallAndStick") :
            ("water" \in getStructureFromExpression(l.over))
                <=> (target.kind \in {"model", "assembly"})

\* C12 amended: the one Ball-and-Stick selection of a Medium target never
\* holds water; it holds ions, ligands with the residues bonded to them,
\* disulfide bridges and non-standard polymer residues, plus the residues
\* bonded to branched entities unless the target is a chain.
C12_BranchedForModelAndAssembly ==
    (size = "Medium" /\ LayersAdded) =>
        /\ Cardinality(LayersOf("BallAndStick")) = 1
        /\ \A l \in LayersOf("BallAndStick") :
              getStructureFromExpression(l.over) =
                  {"ion", "ligand", "residueBondedToLigand", "disulfideResidue",
                   "nonStandardResidue"}
                  \cup (IF target.kind = "chain" THEN {}
                        ELSE {"residueBondedToBranched"})

C12_Witness ==
    /\ size = "Medium"
    /\ target.kind = "model"
    /\ pc = "raster"
    /\ [kind |-> "BallAndStick", over |-> "RepresentationExpression", of |-> target]
          \in canvas

TargetKinds == {"model", "assembly", "chain", "models"}
SizeClasses == {"Small", "Medium", "Big"}

\* C15: whatever the kind and the size class of the target, when the camera
\* is about to be framed at least one layer is on the canvas, no addXxx call
\* is pending and the focus structure is assigned; a framed camera is framed
\* on that focus structure.
C15_PlanningTotal ==
    /\ target # NoTarget => target.kind \in TargetKinds /\ size \in SizeClasses
    /\ pc = "add" => todo # <<>>
    /\ pc = "focus" =>
          /\ canvas # {}
          /\ todo = <<>>
          /\ focusStructure # "unassigned"
          /\ getStructureFromExpression(focusStructure) \subseteq AtomClasses
    /\ pc \in {"raster", "encode", "write", "clear"} =>
          /\ canvas # {}
          /\ camera = [on |-> focusStructure, of |-> target]
          /\ camera.on # "unassigned"

C15_Witness ==
    /\ pc = "raster"
    /\ target.kind = "models"
    /\ size = "Big"
    /\ Cardinality(canvas) = 3
    /\ camera.on = "FocusExpression"

\* the focus selection of the target being rendered holds no atom: the chain
\* name matches no chain, or the chain is a water chain and the selection
\* leaves water out
ZeroAtomFocus ==
    /\ LayersAdded
    /\ \/ structure = EmptyStructure
       \/ /\ target.kind = "chain"
          /\ target.id \in 1..Len(trajectory.chains)
          /\ trajectory.chains[target.id] = "water"
          /\ "water" \notin getStructureFromExpression(focusStructure)

\* C18 as stated: a target whose focus structure has zero atoms never gets
\* past the framing of the camera, and no image of it is written.
C18_ZeroAtomFocusIsError ==
    ZeroAtomFocus =>
        /\ pc = "focus"
        /\ imageFile(target, args.format) \notin files

EffectsOf(sz) ==
    [occlusion |-> IF sz = "Big" THEN "on" ELSE "off",
     outline |-> IF sz = "Big" THEN "on" ELSE "off"]

\* C22: from the rasterization of a target to the clearing of the canvas,
\* ambient occlusion and outline are both on when the size class of that
\* target is Big and both off otherwise, whatever the effects were left at by
\* the targets before.
C22_EffectsOnlyForBig ==
    pc \in {"encode", "write", "clear"} => imageProps = EffectsOf(size)

\* a Small target about to be rasterized while the effects of the Big target
\* before it are still on
C22_Witness ==
    /\ Len(started) >= 2
    /\ size = "Small"
    /\ pc = "raster"
    /\ imageProps = EffectsOf("Big")

PolymerChains == {c \in 1..Len(trajectory.chains) : trajectory.chains[c] = "polymer"}

\* the chains the loop of renderAll has gone past
ChainsPassed ==
    IF phase = "chains" THEN 1..i
    ELSE IF phase = "ensemble" THEN 1..Len(trajectory.chains)
    ELSE {}

\* C23: under renderAll every polymer chain the chain loop has gone past was
\* rendered and its image written (or its write attempted and failed),
\* whatever its size class, so that after the loop every polymer chain of the
\* representative model has its image; and a chain classified Big is drawn as
\* one Surface layer over its polymer atoms.
C23_NoChainSkipped ==
    /\ args.render = "all" =>
          \A c \in PolymerChains \cap ChainsPassed :
              /\ \E k \in 1..Len(started) : started[k] = [kind |-> "chain", id |-> c]
              /\ imageFile([kind |-> "chain", id |-> c], args.format)
                    \in files \cup writeFailed
    /\ (Finished /\ args.render = "all" /\ writeFailed = {}) =>
          \A c \in PolymerChains :
              imageFile([kind |-> "chain", id |-> c], args.format) \in files
    /\ (target.kind = "chain" /\ size = "Big" /\ LayersAdded) =>
          canvas = {[kind |-> "Surface", over |-> "polymer", of |-> target]}

C23_Witness ==
    /\ args.render = "all"
    /\ phase = "chains"
    /\ pc = "clear"
    /\ size = "Big"
    /\ target.kind = "chain"
    /\ canvas = {[kind |-> "Surface", over |-> "polymer", of |-> target]}
    /\ imageFile(target, args.format) \in files

\* C28: once the layers of a Medium target are on the canvas, every atom
\* class of its Ball-and-Stick selection is in its focus selection, and the
\* two are of the same kind: RepresentationExpressionNoBranched with
\* FocusExpressionNoBranched for a chain target, RepresentationExpression
\* with FocusExpression for any other; each focus expression contains the
\* representation expression of its kind, and the trace and nucleic atoms.
C28_FocusContainsBallAndStick ==
    /\ RepresentationExpression \subseteq FocusExpression
    /\ RepresentationExpressionNoBranched \subseteq FocusExpressionNoBranched
    /\ (size = "Medium" /\ LayersAdded) =>
          \A l \in LayersOf("BallAndStick") :
              /\ getStructureFromExpression(l.over)
                    \subseteq getStructureFromExpression(focusStructure)
              /\ Q.trace \cup Q.nucleic
                    \subseteq getStructureFromExpression(focusStructure)
              /\ <<l.over, focusStructure>> =
                    IF target.kind = "chain"
                    THEN <<"RepresentationExpressionNoBranched",
                           "FocusExpressionNoBranched">>
                    ELSE <<"RepresentationExpression", "FocusExpression">>

C28_Witness ==
    /\ size = "Medium"
    /\ target.kind = "chain"
    /\ pc = "raster"
    /\ camera.on = "FocusExpressionNoBranched"
    /\ [kind |-> "BallAndStick", over |-> "RepresentationExpressionNoBranched",
        of |-> target] \in canvas

-----------------------------------------------------------------------------
(* Properties of the file names (SpecNames) *)

\* the targets the invocation names: every frame, assembly and polymer chain
\* and, for more than one frame, the ensemble; or the one target asked for
ExpectedTargets ==
    CASE args.render = "all" ->
            {[kind |-> "model", id |-> n] : n \in 1..trajectory.frameCount}
            \cup {[kind |-> "assembly", id |-> a] : a \in 1..trajectory.assemblies}
            \cup {[kind |-> "chain", id |-> c] :
                      c \in {j \in 1..Len(trajectory.chains) :
                                trajectory.chains[j] = "polymer"}}
            \cup (IF trajectory.frameCount > 1
                  THEN {[kind |-> "models", id |-> 0]} ELSE {})
      [] args.render = "model" ->
            IF args.arg < trajectory.frameCount
            THEN {[kind |-> "model", id |-> args.arg + 1]} ELSE {}
      [] args.render = "assembly" ->
            IF args.arg < trajectory.assemblies
            THEN {[kind |-> "assembly", id |-> args.arg + 1]} ELSE {}
      [] args.render = "chain" -> {[kind |-> "chain", id |-> args.arg]}
      [] args.render = "models" -> {[kind |-> "models", id |-> 0]}

\* n is what stands in the path after its last separator and before the
\* first dot that follows
IsInputFileName(n, path) ==
    \E a \in 0..Len(path) :
        /\ a = 0 \/ path[a] \in Separators
        /\ \A j \in (a + 1)..Len(path) : path[j] \notin Separators
        /\ a + Len(n) <= Len(path)
        /\ n = SubSeq(path, a + 1, a + Len(n))
        /\ \A j \in 1..Len(n) : n[j] # "."
        /\ a + Len(n) = Len(path) \/ path[a + Len(n) + 1] = "."

NamesProduced == files \cup writeFailed

\* C21: every image file the run writes or tries to write is named by the
\* input file name (the path without directories and without anything from
\* its first dot on), the kind of a target the invocation names, that
\* target's id (1-based frame index, assembly id, chain name) and the format;
\* and a run that ends with exit code 0 has produced exactly the names of the
\* targets the invocation names, so the set of names is a function of the
\* command and the input.
C21_FileNames ==
    /\ \A f \in NamesProduced :
          /\ IsInputFileName(f.name, args.in)
          /\ f.ext = args.format
          /\ [kind |-> f.stem, id |-> f.id] \in ExpectedTargets
    /\ Finished =>
          {[kind |-> f.stem, id |-> f.id] : f \in NamesProduced} = ExpectedTargets

C21_Witness ==
    /\ Finished
    /\ args.render = "all"
    /\ args.in = <<"data", "/", "1abc", ".", "cif", ".", "gz">>
    /\ trajectory.frameCount = 2
    /\ [name |-> <<"1abc">>, stem |-> "models", id |-> 0, ext |-> "jpeg"] \in files
    /\ [name |-> <<"1abc">>, stem |-> "model", id |-> 2, ext |-> "jpeg"] \in files
    /\ Cardinality(files) = 5

-----------------------------------------------------------------------------
(* Properties of the chain list (SpecChainList) *)

RunsOf(tokens) == Tail(split(tokens, {"chain"}))

RECURSIVE JoinRuns(_)
JoinRuns(runs) ==
    IF runs = <<>> THEN <<>>
    ELSE <<"chain">> \o Head(runs) \o JoinRuns(Tail(runs))

Reverse(seq) == [j \in 1..Len(seq) |-> seq[Len(seq) + 1 - j]]

IsOperatorList(run) == Len(run) >= 2 /\ run[2] = "operator-list"

IdsOf(run) == SubSeq(run, 3, Len(run))

\* the operators of the assembly composed of exactly the ids of the run
OperatorsComposedOf(run) ==
    LET ops == allOperators(trajectory.operatorGroups)
        ids == IdsOf(run)
    IN  {ops[j].name : j \in {l \in 1..Len(ops) :
            /\ Len(ops[l].operList) = Len(ids)
            /\ {ops[l].operList[m] : m \in 1..Len(ids)}
                  = {parseInt[ids[m]] : m \in 1..Len(ids)}}}

\* the token list with run k replaced
WithRun(k, run) == JoinRuns([RunsOf(args.chainList) EXCEPT ![k] = run])

SelectionOf(tokens) ==
    LET r == resolve(trajectory.operatorGroups, tokens)
    IN  [ok |-> r.ok,
         selected |-> IF r.ok THEN toStructures(trajectory.operatorGroups, r.tokens)
                      ELSE {}]

ChainListResolved == chainOperators # <<>>

\* C24: when the chain list has been resolved, giving the ids of any of its
\* operator-list qualifiers in the opposite order resolves to the same
\* selection, and so does naming, with operator-name, the operator composed of
\* those ids when the assembly has exactly one such operator; and the
\* structure rendered is that selection.
C24_OperatorListOrderAndName ==
    ChainListResolved =>
        LET runs == RunsOf(args.chainList)
            here == [ok |-> TRUE,
                     selected |-> toStructures(trajectory.operatorGroups,
                                               chainOperators)]
        IN  /\ \A k \in 1..Len(runs) :
                  IsOperatorList(runs[k]) =>
                      /\ SelectionOf(WithRun(k, <<runs[k][1], "operator-list">>
                                                    \o Reverse(IdsOf(runs[k]))))
                            = here
                      /\ \A n \in OperatorsComposedOf(runs[k]) :
                            Cardinality(OperatorsComposedOf(runs[k])) = 1 =>
                                SelectionOf(WithRun(k, <<runs[k][1],
                                                         "operator-name", n>>))
                                    = here
            /\ LayersAdded => structure.selected = here.selected

C24_Witness ==
    /\ args.chainList = <<"chain", "A", "operator-list", "63", "1">>
    /\ chainOperators = <<ChainOperatorToken("A", "ASM_1")>>
    /\ pc = "clear"
    /\ structure.selected = {[chain |-> "A", operName |-> "ASM_1"]}
    /\ files # {}

\* a run without a chain name, a qualifier keyword that is neither
\* operator-name nor operator-list, or an operator-list that no operator of
\* the assembly is composed of
InvalidChainList ==
    \E k \in 1..Len(RunsOf(args.chainList)) :
        LET run == RunsOf(args.chainList)[k]
        IN  \/ run = <<>>
            \/ Len(run) >= 2 /\ run[2] \notin {"operator-name", "operator-list"}
            \/ IsOperatorList(run) /\ OperatorsComposedOf(run) = {}

\* C25: an invocation with an invalid chain list never builds a structure,
\* adds a representation or writes an image, and once it is past the
\* dispatch of main it has ended with exit code 1; a validation error is
\* reported for invalid chain lists only.
C25_ValidationBeforeRendering ==
    /\ InvalidChainList =>
          /\ canvas = {}
          /\ files = {}
          /\ writeFailed = {}
          /\ started = <<>>
          /\ chainOperators = <<>>
          /\ pc \in {"main", "dispatch", "exited"}
          /\ pc = "exited" => exitCode = 1 /\ err \in {"parse", "index", "validation"}
    /\ err = "validation" => InvalidChainList /\ pc = "exited" /\ exitCode = 1

C25_Witness ==
    /\ args.chainList = <<"chain", "A", "operator-list", "999">>
    /\ err = "validation"
    /\ pc = "exited"
    /\ exitCode = 1
    /\ files = {}

-----------------------------------------------------------------------------
(* Properties of the color themes (SpecPlan) *)

PolymerLayers == {l \in canvas : l.kind \in {"Cartoon", "Surface"}}

ConfidenceLayer(l) == l.colorTheme = "plddt-confidence"

ThemeOfUnitCount(n) ==
    IF n = 1 THEN "sequence-id"
    ELSE IF n < 40 THEN "polymer-index"
    ELSE "polymer-id"

\* C13 as stated: a polymer layer that is not colored by confidence has the
\* theme that the polymer unit count of the structure it is drawn over gives:
\* sequence-id for 1, polymer-index below 40, polymer-id from 40 on; for every
\* target kind.
C13_ThemeFromDrawnStructure ==
    LayersAdded =>
        \A l \in PolymerLayers :
            ~ConfidenceLayer(l) =>
                l.colorTheme = ThemeOfUnitCount(structure.polymerUnitCount)

\* C13 amended: the rule holds for model, assembly and chain targets; the
\* polymer layer of an ensemble target is sequence-id when the first model
\* has exactly one polymer unit and polymer-id otherwise, whatever the unit
\* count of the ensemble structure it is drawn over.
C13_ThemeFromFirstModelForEnsemble ==
    LayersAdded =>
        \A l \in PolymerLayers :
            ~ConfidenceLayer(l) =>
                l.colorTheme =
                    IF target.kind = "models"
                    THEN (IF trajectory.representative.polymerUnitCount = 1
                          THEN "sequence-id" ELSE "polymer-id")
                    ELSE ThemeOfUnitCount(structure.polymerUnitCount)

C13_Witness ==
    /\ pc = "raster"
    /\ target.kind = "models"
    /\ trajectory.frameCount = 2
    /\ structure.polymerUnitCount = 2
    /\ \E l \in PolymerLayers : l.colorTheme = "sequence-id"

\* C14 as stated: the polymer layer of a model, assembly or chain target is
\* colored by confidence exactly when the policy is not 'off', the structure
\* carries the score and the policy is 'on' or the structure has exactly one
\* polymer unit; in every size class.
C14_ConfidenceThemeEverySize ==
    (LayersAdded /\ target.kind \in {"model", "assembly", "chain"}) =>
        \A l \in PolymerLayers :
            ConfidenceLayer(l) <=>
                /\ args.plddt # "off"
                /\ structure.plddt
                /\ args.plddt = "on" \/ structure.polymerUnitCount = 1

-----------------------------------------------------------------------------
(* Properties of the camera frame (SpecCamera) *)

FirstResidueFrames == {f \in frames : args.focus = "FocusFirstResidue"}

Flips(f, axis) == \E j \in 1..Len(f.axes.toFlip) : f.axes.toFlip[j] = axis

\* C16 as stated: at most one flip is applied; aroundY when the Y distance of
\* the reference point is negative, aroundX only when the Y distance is not
\* negative and the X distance is negative.
C16_AtMostOneFlip ==
    \A f \in FirstResidueFrames :
        /\ Len(f.axes.toFlip) <= 1
        /\ Flips(f, "aroundY") <=> Negative(f.axes.toYAxis)
        /\ Flips(f, "aroundX") <=>
              ~Negative(f.axes.toYAxis) /\ Negative(f.axes.toXAxis)

\* C16 amended: the two tests are independent; aroundY is applied exactly
\* when the Y distance is negative, aroundX exactly when the X distance is
\* negative, aroundY first.  With both, the first axis ends negated and the
\* third axis, negated twice, ends as it was.
C16_IndependentFlips ==
    \A f \in FirstResidueFrames :
        LET y == Negative(f.axes.toYAxis)
            x == Negative(f.axes.toXAxis)
            axes == focusStructure.principalAxes
        IN  /\ f.axes.toFlip = (IF y THEN <<"aroundY">> ELSE <<>>)
                                \o (IF x THEN <<"aroundX">> ELSE <<>>)
            /\ f.axes.dirA = IF x THEN negate(axes.dirA) ELSE axes.dirA
            /\ f.axes.dirC = IF x # y THEN negate(axes.dirC) ELSE axes.dirC

C16_Witness ==
    \E f \in FirstResidueFrames :
        /\ f.axes.toFlip = <<"aroundY", "aroundX">>
        /\ f.axes.dirA = negate(focusStructure.principalAxes.dirA)
        /\ f.axes.dirC = focusStructure.principalAxes.dirC

\* C17 as stated: every framing leaves radius and radiusMax at the radius of
\* the bounding sphere of the whole target structure.
C17_RadiusOfFullTarget ==
    \A f \in frames :
        /\ f.radius = structure.boundaryRadius
        /\ f.radiusMax = structure.boundaryRadius

\* C17 amended: every framing, by either focus function, leaves radius and
\* radiusMax at the radius of the bounding sphere of the focus structure it
\* was given.
C17_RadiusOfFocusStructure ==
    \A f \in frames :
        /\ f.radius = focusStructure.boundaryRadius
        /\ f.radiusMax = focusStructure.boundaryRadius

C17_Witness ==
    /\ structure.boundaryRadius > focusStructure.boundaryRadius
    /\ focusStructure.boundaryRadius # magnitude(focusStructure.principalAxes.dirA)
    /\ args.focus = "focusCamera"
    /\ \E f \in frames : f.radius = focusStructure.boundaryRadius /\ ~f.nan

\* C19 as stated: two framings of the same target, whose focus structure has
\* atoms and box axes with an extent, leave the same view direction and the
\* same up vector, whatever happened in between.
C19_FrameFunctionOfStructure ==
    \A f, g \in frames :
        (f.of = g.of /\ magnitude(focusStructure.principalAxes.dirA) > 0) =>
            f.direction = g.direction /\ f.up = g.up

NegatedNumber(d) == IF d.nan THEN NaN ELSE Number(-d.v)
NegatedPoint(p) == IF p.nan THEN NaNPoint ELSE Point(negate(p.at))

\* C20: when the reference point of the mirrored target is the negated
\* reference point of the original one, with the same box axes, both signed
\* distances are negated: a test that was negative is not negative for the
\* mirror image, and a distance that was positive is negative; so a flip
\* applied to the original is not applied to the mirror image.
C20_MirrorNegatesDistances ==
    \A f, g \in FirstResidueFrames :
        (f.of = 1 /\ g.of = 2 /\ g.axes.reference = NegatedPoint(f.axes.reference)) =>
            /\ g.axes.toYAxis = NegatedNumber(f.axes.toYAxis)
            /\ g.axes.toXAxis = NegatedNumber(f.axes.toXAxis)
            /\ Negative(f.axes.toYAxis) => ~Negative(g.axes.toYAxis)
            /\ Negative(f.axes.toXAxis) => ~Negative(g.axes.toXAxis)
            /\ Positive(f.axes.toYAxis) => Negative(g.axes.toYAxis)
            /\ Positive(f.axes.toXAxis) => Negative(g.axes.toXAxis)
            /\ Flips(f, "aroundY") => ~Flips(g, "aroundY")
            /\ Flips(f, "aroundX") => ~Flips(g, "aroundX")

C20_Witness ==
    \E f, g \in FirstResidueFrames :
        /\ f.of = 1
        /\ g.of = 2
        /\ ~f.axes.reference.nan
        /\ g.axes.reference = NegatedPoint(f.axes.reference)
        /\ f.axes.toFlip = <<"aroundY">>
        /\ g.axes.toFlip = <<"aroundX">>

\* the frames of the target that is the current one
CurrentFrames == {f \in FirstResidueFrames : f.of = target.id}

\* the point lies on the negative side of the plane through the centroid of
\* the focus structure with the given normal
OnNegativeSide(p, normal) ==
    /\ ~p.nan
    /\ magnitude(normal) > 0
    /\ dot(normal, sub(p.at, focusStructure.principalAxes.origin)) < 0

\* C26 as stated: the Y flip is decided by the side of the reference point
\* with respect to the plane whose normal is the minor axis, which is the
\* view direction of the camera, and the X flip by the plane whose normal is
\* the major axis, which is the camera up.
C26_YCheckAgainstViewDirection ==
    \A f \in CurrentFrames :
        /\ Flips(f, "aroundY") <=>
              OnNegativeSide(f.axes.reference, focusStructure.principalAxes.dirC)
        /\ Flips(f, "aroundX") <=>
              OnNegativeSide(f.axes.reference, focusStructure.principalAxes.dirA)

\* C26 amended: the Y flip is decided by the plane whose normal is the middle
\* axis dirB, which is neither the view direction nor the camera up, and the
\* X flip by the plane whose normal is the major axis dirA, the camera up;
\* the two distances kept are the signed distances to these two planes.  The
\* camera looks along the minor axis dirC when the box axes have an extent.
C26_YCheckAgainstMiddleAxis ==
    \A f \in CurrentFrames :
        /\ Flips(f, "aroundY") <=>
              OnNegativeSide(f.axes.reference, focusStructure.principalAxes.dirB)
        /\ Flips(f, "aroundX") <=>
              OnNegativeSide(f.axes.reference, focusStructure.principalAxes.dirA)
        /\ Negative(f.axes.toYAxis) <=>
              OnNegativeSide(f.axes.reference, focusStructure.principalAxes.dirB)
        /\ Negative(f.axes.toXAxis) <=>
              OnNegativeSide(f.axes.reference, focusStructure.principalAxes.dirA)
        /\ magnitude(focusStructure.principalAxes.dirC) > 0 =>
              /\ f.up \in {focusStructure.principalAxes.dirA,
                            negate(focusStructure.principalAxes.dirA)}
              /\ f.direction \in {focusStructure.principalAxes.dirC,
                                   negate(focusStructure.principalAxes.dirC)}

\* the reference point is on the negative side of the dirB plane and flipped
\* around Y, and not on the negative side of the dirC plane
C26_Witness ==
    /\ \E f \in CurrentFrames :
          /\ Flips(f, "aroundY")
          /\ ~OnNegativeSide(f.axes.reference, focusStructure.principalAxes.dirC)
          /\ OnNegativeSide(f.axes.reference, focusStructure.principalAxes.dirB)

\* the arithmetic mean of the positions of the polymerElements of a unit
PolymerCentroid(unit) ==
    LET n == Len(unit.polymerElements)
        sum == Sum(unit.elements, unit.polymerElements)
    IN  Point(<<sum[1] \div n, sum[2] \div n, sum[3] \div n>>)

\* C27 as stated: the reference point of a framing by FocusFirstResidue is
\* the position of the first atom when the focus structure has one unit, and
\* otherwise the centroid of the polymer atoms of its first unit; it is a
\* point, never NaN.
C27_ReferencePointOfPolymerAtoms ==
    \A f \in CurrentFrames :
        /\ ~f.axes.reference.nan
        /\ Len(focusStructure.units) = 1 =>
              f.axes.reference = Point(focusStructure.units[1].elements[1])
        /\ (Len(focusStructure.units) > 1
              /\ focusStructure.units[1].polymerElements # <<>>) =>
              f.axes.reference = PolymerCentroid(focusStructure.units[1])

-----------------------------------------------------------------------------
(* Properties of the classifier (SpecSize) *)

Residues == structure.polymerResidueCount

\* C7: the size is Big above 4000 residues, else Small for a fiber-like
\* structure, else Small below 10 residues, else Medium; for a structure that
\* is not fiber-like 9 is Small, 10 and 4000 are Medium, 4001 is Big.
C7_SizeRules ==
    pc = "classified" =>
        /\ size = IF Residues > 4000 THEN "Big"
                  ELSE IF fiberLike THEN "Small"
                  ELSE IF Residues < 10 THEN "Small"
                  ELSE "Medium"
        /\ ~fiberLike =>
              /\ Residues = 9 => size = "Small"
              /\ Residues = 10 => size = "Medium"
              /\ Residues = 4000 => size = "Medium"
              /\ Residues = 4001 => size = "Big"

C7_Witness ==
    pc = "classified" /\ ~fiberLike /\ Residues = 4000 /\ size = "Medium"

\* C8 as stated: a fiber-like structure is Small whatever its residue count.
C8_FiberAlwaysSmall ==
    (pc = "classified" /\ fiberLike) => size = "Small"

\* C8 amended: a fiber-like structure is Small whenever it has at most 4000
\* polymer residues, and Big above 4000, as any other structure.
C8_FiberSmallUpTo4000 ==
    (pc = "classified" /\ fiberLike) =>
        size = IF Residues > 4000 THEN "Big" ELSE "Small"

C8_Witness ==
    /\ pc = "classified"
    /\ fiberLike
    /\ Residues = 500
    /\ size = "Small"

Groups == structure.unitSymmetryGroups

\* C9 as stated: fiber-like exactly when there is exactly one unit-symmetry
\* group, it has more than 2 units, and every unit of it has fewer than 15
\* polymer atoms.
C9_FiberLikeIffSingleGroup ==
    pc = "classified" =>
        fiberLike = (/\ Len(Groups) = 1
                     /\ Len(Groups[1].units) > 2
                     /\ \A u \in 1..Len(Groups[1].units) : Groups[1].units[u] < 15)

\* C9 amended: fiber-like exactly when exactly one unit-symmetry group has
\* polymer atoms in its first unit, and that group has more than 2 units and
\* fewer than 15 polymer atoms in its first unit; groups without polymer atoms
\* do not count.
C9_FiberLikeIffSinglePolymerGroup ==
    pc = "classified" =>
        LET polymer == {g \in 1..Len(Groups) : Groups[g].units[1] > 0}
        IN  fiberLike = (/\ Cardinality(polymer) = 1
                         /\ \A g \in polymer :
                               /\ Len(Groups[g].units) > 2
                               /\ Groups[g].units[1] < 15)

C9_Witness ==
    pc = "classified" /\ fiberLike /\ Len(Groups) = 2

-----------------------------------------------------------------------------
(* Properties of the callback chain (SpecRenderAll) *)

\* renderMod was called: the pipeline has gone on to the model images
ModelImagesBegun == \E k \in DOMAIN started : started[k].kind = "model"

ImageOf(stem, index1, index2) ==
    {f \in files : f.stem = stem /\ f.id = <<index1, index2>>}

\* C29: when the pipeline started by renderComb goes on to the model images,
\* an assembly image has been written for every assembly of every model of
\* the input
C29_AssemblyImagesBeforeModelImages ==
    ModelImagesBegun =>
        \A modIndex \in 0..(Len(trajectory.models) - 1) :
            \A asmIndex \in 0..(assemblies(modIndex) - 1) :
                ImageOf("assembly", modIndex, asmIndex) # {}

ChainCalls == {k \in DOMAIN calls : calls[k].fn = "renderChn"}

Oversize == {index \in 0..(Len(trajectory.chains) - 1) :
                trajectory.chains[index + 1].elementCount > maxSize}

\* C30: in the first version of renderChn at most one chain render is in
\* flight, no chain index is taken up twice, a chain of more than maxSize
\* elements gets neither a representation on the canvas nor an image, and
\* process.exit is reached with the image of every other chain it takes up
\* written
C30_OneChainRenderAtATime ==
    args.version = 1 =>
        /\ Cardinality(ChainCalls) <= 1
        /\ \A j, k \in DOMAIN started :
              started[j].kind = "chain" /\ started[j] = started[k] => j = k
        /\ \A index \in Oversize :
              /\ ImageOf("chain", index, 0) = {}
              /\ \A r \in canvas : r.of # <<"renderChn", index, 0>>
        /\ pc = "exited" /\ exitCode = 0 =>
              \A k \in DOMAIN started :
                  started[k].kind = "chain" /\ started[k].id[1] \notin Oversize
                      => ImageOf("chain", started[k].id[1], 0) # {}

====
